---- MODULE Spec2Model ----
(***************************************************************************)
(* Entity / World / System scheduler of the ECS runtime                    *)
(* (src/src/ecs/Entity.ts holds both the Entity and the World class,       *)
(*  src/src/ecs/Component.ts the Component base, src/src/ecs/System.ts the *)
(*  System base).                                                          *)
(*                                                                         *)
(* The program state is the heap record H: the two module-level id         *)
(* counters, the Entity, Component and System objects, and the World's     *)
(* fields.  Every method of the source is an operator from a heap to a     *)
(* result [h |-> heap, x |-> exception]; an action applies one public      *)
(* method.  World.update is the one method that spans several steps: the   *)
(* bodies of the systems' update() are user code that calls back into the  *)
(* World, so every frame of `stack` is one World.update call whose         *)
(* for-of loop is suspended inside a system's update().                    *)
(***************************************************************************)
EXTENDS Integers, Sequences, FiniteSets, TLC

(* ------------------------------ bounds ------------------------------- *)
MaxEntities == 2      \* Entity objects constructed in one behaviour
MaxComponents == 2    \* Component objects constructed in one behaviour
MaxSystems == 2       \* length of World._systems
MaxQueue == 1         \* length of each pending queue
MaxNest == 2          \* World.update calls in progress at once
MaxHookCalls == 2     \* onInit calls received by one System object
StackLimit == 5       \* call depth at which the engine raises RangeError

(* --------------------------- fixed universe --------------------------- *)
\* Component kinds: getType() strings of the shipped components.
CompTypes == {"Transform", "Renderable"}
\* Component.ts declares no destroy(); of the shipped components only
\* RenderableComponent defines one.
HasDestroy(type) == type = "Renderable"
\* The System objects of a behaviour and the priority each was built with.
SystemIds == {1, 2, 3}
Priority(s) == IF s = 1 THEN 5 ELSE 1

NoErr == "none"
NoEntity == -1
NoComponent == -1
NoSystem == "none"

VARIABLES
  nextEntityId,     \* Entity.ts: let nextEntityId
  nextComponentId,  \* Component.ts: let nextComponentId
  entities,         \* the Entity objects, by id
  components,       \* the Component objects, by id
  systemObjs,       \* the System objects: enabled, and the hook calls received
  world,            \* the World's fields
  stack,            \* the World.update calls in progress, outermost first
  last,             \* the call that ended last, and how
  tick,             \* what the systems of the outermost tick did so far
  idLog,            \* the id field of every Entity, in order of construction
  registered,       \* the registrations of World._systems in addSystem order
  machine,          \* the StateMachine's fields
  unsubscribers,    \* the closures onTransition returned, in order: the
                    \* callback of each, and whether it has been invoked
  succeeded,        \* a setState passed its checks and no clear() came after
  smStack,          \* the setState calls in progress, outermost first
  smLast,           \* the StateMachine call that ended last, and what it did
  bus,              \* the EventBus: its listeners map and the Set objects
  closures,         \* the unsubscribe closures EventBus.on returned, in order
  emitStack,        \* the EventBus.emit call in progress, if any
  busLast,          \* the EventBus call that ended last, and what it did
  engine,           \* the lightweight Engine's entity counter and stores
  engLast,          \* the Engine call that ended last, and what it did
  props,            \* the properties the components' classes declare, by id
  factories,        \* the types ComponentSerializer has a factory for
  snapshot,         \* what EntitySerializer.serialize returned last
  serLast,          \* the last EntitySerializer.deserialize, and its result
  smsLast,          \* the last StateMachineSystem.update: the machines it updated
  engRun,           \* the lightweight Engine's loop fields, and its init promise
  we,               \* the WorldEngine's fields, and the animation-frame queue
  weStack,          \* the WorldEngine.loop calls in progress, outermost first
  weLast            \* the WorldEngine call that ended last, and what it emitted

ecsVars == <<nextEntityId, nextComponentId, entities, components, systemObjs,
             world, stack, last, tick, idLog, registered>>
fsmVars == <<machine, unsubscribers, succeeded, smStack, smLast>>
busVars == <<bus, closures, emitStack, busLast>>
engVars == <<engine, engLast>>
serVars == <<props, factories, snapshot, serLast>>
sysVars == <<smsLast>>
runVars == <<engRun>>
weVars == <<we, weStack, weLast>>
nonEcsVars == <<fsmVars, busVars, engVars, serVars, sysVars, runVars, weVars>>
nonFsmVars == <<ecsVars, busVars, engVars, serVars, sysVars, runVars, weVars>>
nonBusVars == <<ecsVars, fsmVars, engVars, serVars, sysVars, runVars, weVars>>
nonEngVars == <<ecsVars, fsmVars, busVars, serVars, sysVars, runVars, weVars>>
nonSerVars == <<fsmVars, busVars, engVars, sysVars, runVars, weVars>>
nonRunVars == <<ecsVars, fsmVars, busVars, engVars, serVars, sysVars, weVars>>
nonWeVars == <<ecsVars, fsmVars, busVars, engVars, serVars, sysVars, runVars>>
vars == <<nextEntityId, nextComponentId, entities, components, systemObjs,
          world, stack, last, tick, idLog, registered,
          machine, unsubscribers, succeeded, smStack, smLast,
          bus, closures, emitStack, busLast,
          engine, engLast,
          props, factories, snapshot, serLast,
          smsLast, engRun, we, weStack, weLast>>

(* ------------------------------ helpers ------------------------------ *)
Range(seq) == {seq[i] : i \in 1..Len(seq)}

RECURSIVE IndexFrom(_, _, _)
IndexFrom(seq, x, i) ==
  IF i > Len(seq) THEN 0 ELSE IF seq[i] = x THEN i ELSE IndexFrom(seq, x, i + 1)
\* Array.prototype.indexOf, 1-based, 0 for "not found".
IndexOf(seq, x) == IndexFrom(seq, x, 1)

\* Array.prototype.splice(index, 1)
Splice(seq, i) == SubSeq(seq, 1, i - 1) \o SubSeq(seq, i + 1, Len(seq))

\* Map.prototype.set on a Map kept as its insertion-ordered key list.
MapSet(keys, k) == IF k \in Range(keys) THEN keys ELSE Append(keys, k)
\* Map.prototype.delete
MapDelete(keys, k) == IF IndexOf(keys, k) = 0 THEN keys ELSE Splice(keys, IndexOf(keys, k))

EmptyMap == [t \in {} |-> <<>>]

Ok(h) == [h |-> h, x |-> NoErr]
Throw(h, e) == [h |-> h, x |-> e]

\* The heap the methods read and write.
H == [nextEntityId |-> nextEntityId, nextComponentId |-> nextComponentId,
      entities |-> entities, components |-> components,
      systemObjs |-> systemObjs, world |-> world]

(* ------------------------------ Entity ------------------------------- *)
\* (variant: the constructor reads the counter and does not advance it)
NewEntityObjNoIncrement(h) ==
  [h EXCEPT !.entities = [i \in 0..h.nextEntityId |->
               IF i = h.nextEntityId
               THEN [id |-> h.nextEntityId, active |-> TRUE, world |-> FALSE,
                     components |-> <<>>, componentsByType |-> EmptyMap]
               ELSE h.entities[i]]]

\* new Entity(name): id = nextEntityId++, active, no components, no world.
NewEntityObj(h) ==
  [h EXCEPT !.nextEntityId = @ + 1,
            !.entities = [i \in 0..h.nextEntityId |->
               IF i = h.nextEntityId
               THEN [id |-> h.nextEntityId, active |-> TRUE, world |-> FALSE,
                     components |-> <<>>, componentsByType |-> EmptyMap]
               ELSE h.entities[i]]]

\* new XComponent(): id = nextComponentId++, entityId = -1.
NewComponentObj(h, type) ==
  [h EXCEPT !.nextComponentId = @ + 1,
            !.components = [i \in 0..h.nextComponentId |->
               IF i = h.nextComponentId
               THEN [type |-> type, entityId |-> NoEntity, destroyed |-> FALSE]
               ELSE h.components[i]]]

\* Entity.setWorld (the components' own world reference, which only
\* Component.getSiblingComponent reads, is not part of the model)
setWorld(h, e) == [h EXCEPT !.entities[e].world = TRUE]

\* Entity.addComponent
addComponent(h, e, c) ==
  LET type == h.components[c].type
      byType == h.entities[e].componentsByType
      bucket == IF type \in DOMAIN byType THEN byType[type] ELSE <<>>
  IN [h EXCEPT
        !.components[c].entityId = e,
        !.entities[e] = [@ EXCEPT
           !.components = MapSet(@, c),
           !.componentsByType = [t \in (DOMAIN byType) \cup {type} |->
              IF t = type THEN Append(bucket, c) ELSE byType[t]]]]

\* Entity.getComponents
getComponents(h, e, type) ==
  IF type \in DOMAIN h.entities[e].componentsByType
  THEN h.entities[e].componentsByType[type] ELSE <<>>

\* Entity.getComponent: the first of the bucket, NoComponent for undefined.
getComponent(h, e, type) ==
  IF type \in DOMAIN h.entities[e].componentsByType
     /\ Len(h.entities[e].componentsByType[type]) > 0
  THEN h.entities[e].componentsByType[type][1] ELSE NoComponent

\* Entity.getAllComponents
getAllComponents(h, e) == h.entities[e].components

\* Entity.hasComponent
hasComponent(h, e, type) ==
  /\ type \in DOMAIN h.entities[e].componentsByType
  /\ Len(h.entities[e].componentsByType[type]) > 0

\* Entity.removeComponent
removeComponent(h, e, c) ==
  LET type == h.components[c].type
      byType == h.entities[e].componentsByType
      index == IndexOf(byType[type], c)
      spliced == IF index > 0 THEN Splice(byType[type], index) ELSE byType[type]
  IN [h EXCEPT !.entities[e] = [@ EXCEPT
        !.components = MapDelete(@, c),
        !.componentsByType =
           IF type \notin DOMAIN byType THEN byType
           ELSE IF Len(spliced) = 0
                THEN [t \in (DOMAIN byType) \ {type} |-> byType[t]]
                ELSE [byType EXCEPT ![type] = spliced]]]

\* component.destroy(): a TypeError when the component class defines none.
componentDestroy(h, c) ==
  IF HasDestroy(h.components[c].type)
  THEN Ok([h EXCEPT !.components[c].destroyed = TRUE])
  ELSE Throw(h, "TypeError")

\* for (const component of this._components.values()) component.destroy()
RECURSIVE destroyComponents(_, _, _)
destroyComponents(h, comps, i) ==
  IF i > Len(comps) THEN Ok(h)
  ELSE LET r == componentDestroy(h, comps[i])
       IN IF r.x # NoErr THEN r ELSE destroyComponents(r.h, comps, i + 1)

RECURSIVE entityDestroy(_, _, _)
RECURSIVE removeEntity(_, _, _)
RECURSIVE performEntityRemoval(_, _, _)

\* Entity.destroy; d is the depth of the call.
entityDestroy(h, e, d) ==
  IF d > StackLimit THEN Throw(h, "RangeError")
  ELSE LET r1 == destroyComponents(h, h.entities[e].components, 1)
       IN IF r1.x # NoErr THEN r1
          ELSE IF ~r1.h.entities[e].world THEN Throw(r1.h, "TypeError")
          ELSE LET r2 == removeEntity(r1.h, e, d + 1)
               IN IF r2.x # NoErr THEN r2
                  ELSE Ok([r2.h EXCEPT !.entities[e] =
                             [@ EXCEPT !.active = FALSE, !.world = FALSE,
                                       !.components = <<>>,
                                       !.componentsByType = EmptyMap]])

(* ------------------------------- World ------------------------------- *)
\* (variant: the removal is deferred without marking the entity inactive)
removeEntityKeepsActive(h, e, d) ==
  IF d > StackLimit THEN Throw(h, "RangeError")
  ELSE IF h.world.isUpdating
       THEN Ok([h EXCEPT !.world.entitiesToRemove = Append(@, e)])
       ELSE performEntityRemoval(h, e, d + 1)

\* World.removeEntity
removeEntity(h, e, d) ==
  IF d > StackLimit THEN Throw(h, "RangeError")
  ELSE LET h1 == [h EXCEPT !.entities[e].active = FALSE]
       IN IF h1.world.isUpdating
          THEN Ok([h1 EXCEPT !.world.entitiesToRemove = Append(@, e)])
          ELSE performEntityRemoval(h1, e, d + 1)

\* World._performEntityRemoval
performEntityRemoval(h, e, d) ==
  IF d > StackLimit THEN Throw(h, "RangeError")
  ELSE LET r == entityDestroy(h, e, d + 1)
       IN IF r.x # NoErr THEN r
          ELSE Ok([r.h EXCEPT !.world.entities = MapDelete(@, e)])

\* World.addEntity
addEntity(h, e) ==
  LET h1 == setWorld(h, e)
  IN IF h1.world.isUpdating
     THEN [h1 EXCEPT !.world.entitiesToAdd = Append(@, e)]
     ELSE [h1 EXCEPT !.world.entities = MapSet(@, e)]

\* World.createEntity
createEntity(h) == addEntity(NewEntityObj(h), h.nextEntityId)

\* World.getEntity: the id when the map has it, NoEntity for undefined.
getEntity(h, id) == IF id \in Range(h.world.entities) THEN id ELSE NoEntity

\* World.getAllEntities
getAllEntities(h) ==
  SelectSeq(h.world.entities, LAMBDA e : h.entities[e].active)

\* (variant: `some` where the source has `every`)
getEntitiesWithSomeComponent(h, componentTypes) ==
  IF Len(componentTypes) = 0 THEN getAllEntities(h)
  ELSE SelectSeq(getAllEntities(h),
         LAMBDA e : \E i \in 1..Len(componentTypes) :
                       hasComponent(h, e, componentTypes[i]))

\* World.getEntitiesWithComponents
getEntitiesWithComponents(h, componentTypes) ==
  IF Len(componentTypes) = 0 THEN getAllEntities(h)
  ELSE SelectSeq(getAllEntities(h),
         LAMBDA e : \A i \in 1..Len(componentTypes) :
                       hasComponent(h, e, componentTypes[i]))

\* World.getStats
getStats(h) ==
  [entities |-> Len(h.world.entities),
   activeEntities |-> Len(getAllEntities(h)),
   systems |-> Len(h.world.systems)]


(* ------------------------------ Systems ------------------------------ *)
\* Array.prototype.sort is stable: an element is placed behind every element
\* the comparator (a, b) => a.priority - b.priority does not order after it.
RECURSIVE insertByPriority(_, _)
\* (variant: an unstable sort, equal priorities change places)
insertBeforeEqual(sorted, s) ==
  IF Len(sorted) = 0 THEN <<s>>
  ELSE IF Priority(sorted[Len(sorted)]) - Priority(s) >= 0
       THEN Append(insertByPriority(SubSeq(sorted, 1, Len(sorted) - 1), s),
                   sorted[Len(sorted)])
       ELSE Append(sorted, s)

insertByPriority(sorted, s) ==
  IF Len(sorted) = 0 THEN <<s>>
  ELSE IF Priority(sorted[Len(sorted)]) - Priority(s) > 0
       THEN Append(insertByPriority(SubSeq(sorted, 1, Len(sorted) - 1), s),
                   sorted[Len(sorted)])
       ELSE Append(sorted, s)

RECURSIVE sortByPriority(_)
sortByPriority(seq) ==
  IF Len(seq) = 0 THEN <<>>
  ELSE insertByPriority(sortByPriority(SubSeq(seq, 1, Len(seq) - 1)), seq[Len(seq)])

\* World.addSystem
addSystem(h, s) ==
  [h EXCEPT !.world.systems = sortByPriority(Append(@, s)),
            !.systemObjs[s].onInit = @ + 1]

\* World.removeSystem
removeSystem(h, s) ==
  LET index == IndexOf(h.world.systems, s)
  IN IF index > 0
     THEN [h EXCEPT !.systemObjs[s].onDestroy = @ + 1,
                    !.world.systems = Splice(@, index)]
     ELSE h

\* for (const system of this._systems) system.onDestroy()
RECURSIVE destroySystems(_, _, _)
destroySystems(h, arr, i) ==
  IF i > Len(arr) THEN h
  ELSE destroySystems([h EXCEPT !.systemObjs[arr[i]].onDestroy = @ + 1], arr, i + 1)

\* for (const entity of this._entities.values()) entity.destroy()
RECURSIVE destroyEntities(_, _, _)
destroyEntities(h, i, d) ==
  IF i > Len(h.world.entities) THEN Ok(h)
  ELSE LET r == entityDestroy(h, h.world.entities[i], d + 1)
       IN IF r.x # NoErr THEN r ELSE destroyEntities(r.h, i + 1, d)

\* World.destroy
worldDestroy(h, d) ==
  LET h1 == destroySystems(h, h.world.systems, 1)
      h2 == [h1 EXCEPT !.world.systems = <<>>]
      r == destroyEntities(h2, 1, d)
  IN IF r.x # NoErr THEN r
     ELSE Ok([r.h EXCEPT !.world.entities = <<>>,
                         !.world.entitiesToAdd = <<>>,
                         !.world.entitiesToRemove = <<>>])

\* for (const entity of this._entitiesToAdd) this._entities.set(entity.id, entity)
RECURSIVE flushAdds(_, _, _)
flushAdds(keys, toAdd, i) ==
  IF i > Len(toAdd) THEN keys ELSE flushAdds(MapSet(keys, toAdd[i]), toAdd, i + 1)

\* for (const entity of this._entitiesToRemove) this._performEntityRemoval(entity)
RECURSIVE flushRemoves(_, _, _)
flushRemoves(h, i, d) ==
  IF i > Len(h.world.entitiesToRemove) THEN Ok(h)
  ELSE LET r == performEntityRemoval(h, h.world.entitiesToRemove[i], d + 1)
       IN IF r.x # NoErr THEN r ELSE flushRemoves(r.h, i + 1, d)

\* World._processPendingChanges
processPendingChanges(h, d) ==
  LET h1 == [h EXCEPT !.world.entities = flushAdds(@, h.world.entitiesToAdd, 1),
                      !.world.entitiesToAdd = <<>>]
      r == flushRemoves(h1, 1, d)
  IN IF r.x # NoErr THEN r
     ELSE Ok([r.h EXCEPT !.world.entitiesToRemove = <<>>])

(* --------------------------- World.update ---------------------------- *)
\* A frame is one World.update call inside its for-of loop.  The iterator
\* holds the array object it was created on: live says that this is still
\* World._systems, arr keeps the elements once World.destroy has installed a
\* new array.  idx is the index of the element whose update() is running.
\* visited, ran and touched record the loop for the scheduling properties.
NewFrame == [live |-> TRUE, arr |-> <<>>, idx |-> 0, visited |-> <<>>,
             ran |-> <<>>, touched |-> FALSE, done |-> FALSE]

frameArray(h, fr) == IF fr.live THEN h.world.systems ELSE fr.arr

\* The loop from the iterator's next() on: disabled systems are passed over,
\* the first enabled one has its update() invoked, the end of the array
\* ends the loop.
RECURSIVE advance(_, _)
advance(h, fr) ==
  LET arr == frameArray(h, fr)
      i == fr.idx + 1
  IN IF i > Len(arr) THEN [fr EXCEPT !.done = TRUE]
     ELSE LET s == arr[i]
              seen == [fr EXCEPT !.idx = i,
                          !.visited = Append(@, [system |-> s,
                                       enabled |-> h.systemObjs[s].enabled])]
          IN IF h.systemObjs[s].enabled
             THEN [seen EXCEPT !.ran = Append(@, s)]
             ELSE advance(h, seen)

\* The statements of World.update behind the loop.
finishUpdate(h) ==
  processPendingChanges([h EXCEPT !.world.isUpdating = FALSE], 1)


(* --------------------------- StateMachine ---------------------------- *)
\* src/src/state/StateMachine.ts.  setState spans several steps: onExit,
\* onEnter and the transition callbacks are user code that calls back into
\* the machine, so every frame of smStack is one setState call suspended
\* inside one of them.
MaxCallbacks == 2     \* length of StateMachine._transitionCallbacks
MaxSetStateNest == 2  \* setState calls in progress at once
MaxRegistrations == 3 \* onTransition calls in one behaviour

\* The State objects of a behaviour and the name each was constructed with.
StateObjs == {1, 2, 3}
\* A State object constructed with the name of object 1.
Replacements == {4}
StateName(o) ==
  CASE o = 1 -> "idle" [] o = 2 -> "run" [] o = 4 -> "idle" [] OTHER -> ""
StateNames == {StateName(o) : o \in StateObjs}
\* State.canTransitionTo returns true; the class of object 2 overrides it
\* and refuses "idle".
canTransitionTo(o, stateName) == ~(o = 2 /\ stateName = "idle")
\* The functions given to onTransition.
Callbacks == {1, 2}

NoState == 0
Undefined == -1
NullName == "null"

\* new StateMachine(context)
NewMachine == [states |-> [n \in {} |-> NoState], currentState |-> NoState,
               transitionCallbacks |-> <<>>]

\* StateMachine.addState
addState(m, o) ==
  [m EXCEPT !.states = [n \in (DOMAIN m.states) \cup {StateName(o)} |->
                          IF n = StateName(o) THEN o ELSE m.states[n]]]

\* StateMachine.getState, NoState for undefined
getState(m, stateName) ==
  IF stateName \in DOMAIN m.states THEN m.states[stateName] ELSE NoState

\* state?.name || null: null for no state and for the empty name.
NameOrNull(o) ==
  IF o = NoState THEN NullName
  ELSE IF StateName(o) = "" THEN NullName ELSE StateName(o)

\* previousState || undefined
OrUndefined(o) == IF o = NoState THEN Undefined ELSE o

\* StateMachine.getCurrentStateName
getCurrentStateName(m) == NameOrNull(m.currentState)

\* StateMachine.getCurrentState
getCurrentState(m) == m.currentState

\* StateMachine.onTransition: the push; the closure it returns is unsubscribe.
onTransition(m, cb) == [m EXCEPT !.transitionCallbacks = Append(@, cb)]

\* The closure returned by onTransition(cb).
unsubscribe(m, cb) ==
  LET index == IndexOf(m.transitionCallbacks, cb)
  IN IF index > 0 THEN [m EXCEPT !.transitionCallbacks = Splice(@, index)]
     ELSE m

\* One setState call: its argument, the state it found, the locals
\* previousState and previousStateName, the phase (the kind of user code it
\* is suspended in), the position of the for-of iterator, and for the
\* properties: before, the current state the call found; atStart, the
\* callback list when the loop began; calls, the user code it invoked.
NewCall(m, stateName, newState) ==
  [stateName |-> stateName, newState |-> newState, phase |-> "onExit",
   previousState |-> NoState, previousStateName |-> NullName, idx |-> 0,
   before |-> m.currentState, atStart |-> <<>>, calls |-> <<>>]

\* An invocation of user code: hook(arg) on a State, or callback(from, to);
\* current is getCurrentState() as the invocation finds it.
HookCall(hook, on, arg, from, to, m) ==
  [hook |-> hook, on |-> on, arg |-> arg, from |-> from, to |-> to,
   current |-> getCurrentState(m)]

\* How far a step took a setState call: into user code, or to its return.
Step(m, fr, done, result) == [m |-> m, fr |-> fr, done |-> done, result |-> result]

\* this._currentState.onExit(newState)
exitCurrent(m, fr) ==
  [fr EXCEPT !.phase = "onExit",
             !.calls = Append(@, HookCall("onExit", m.currentState, fr.newState,
                                          NullName, NullName, m))]

\* (variant: the name of the previous state is read after the pointer swap)
swapAndEnterNamesNew(m, fr) ==
  LET previousState == m.currentState
      m1 == [m EXCEPT !.currentState = fr.newState]
  IN Step(m1,
          [fr EXCEPT !.phase = "onEnter",
                     !.previousState = previousState,
                     !.previousStateName = NameOrNull(m1.currentState),
                     !.calls = Append(@, HookCall("onEnter", fr.newState,
                                        OrUndefined(previousState),
                                        NullName, NullName, m1))],
          FALSE, FALSE)

\* setState from `const previousState` to the onEnter call.
swapAndEnter(m, fr) ==
  LET previousState == m.currentState
      m1 == [m EXCEPT !.currentState = fr.newState]
  IN Step(m1,
          [fr EXCEPT !.phase = "onEnter",
                     !.previousState = previousState,
                     !.previousStateName = NameOrNull(previousState),
                     !.calls = Append(@, HookCall("onEnter", fr.newState,
                                        OrUndefined(previousState),
                                        NullName, NullName, m1))],
          FALSE, FALSE)

\* The for-of loop over this._transitionCallbacks from the iterator's
\* next() on: the next callback is invoked, or setState returns true.
notifyNext(m, fr) ==
  LET i == fr.idx + 1
  IN IF i > Len(m.transitionCallbacks) THEN Step(m, fr, TRUE, TRUE)
     ELSE Step(m,
               [fr EXCEPT !.idx = i,
                          !.calls = Append(@, HookCall("callback",
                                       m.transitionCallbacks[i], Undefined,
                                       fr.previousStateName, fr.stateName, m))],
               FALSE, FALSE)

\* The loop begins: the iterator is created on the live array.
startNotify(m, fr) ==
  notifyNext(m, [fr EXCEPT !.phase = "notify", !.idx = 0,
                           !.atStart = m.transitionCallbacks])

\* (variant: an unknown name resets the machine)
setStateForgetsCurrent(m, stateName) ==
  LET known == stateName \in DOMAIN m.states
      newState == IF known THEN m.states[stateName] ELSE NoState
      fr == NewCall(m, stateName, newState)
  IN IF ~known THEN Step([m EXCEPT !.currentState = NoState], fr, TRUE, FALSE)
     ELSE IF m.currentState # NoState
          THEN IF ~canTransitionTo(m.currentState, stateName)
               THEN Step(m, fr, TRUE, FALSE)
               ELSE Step(m, exitCurrent(m, fr), FALSE, FALSE)
          ELSE swapAndEnter(m, fr)

\* (variant: the current state is not asked)
setStateUnchecked(m, stateName) ==
  LET known == stateName \in DOMAIN m.states
      newState == IF known THEN m.states[stateName] ELSE NoState
      fr == NewCall(m, stateName, newState)
  IN IF ~known THEN Step(m, fr, TRUE, FALSE)
     ELSE IF m.currentState # NoState
          THEN Step(m, exitCurrent(m, fr), FALSE, FALSE)
          ELSE swapAndEnter(m, fr)

\* StateMachine.setState up to the first user code it invokes.
setState(m, stateName) ==
  LET known == stateName \in DOMAIN m.states
      newState == IF known THEN m.states[stateName] ELSE NoState
      fr == NewCall(m, stateName, newState)
  IN IF ~known THEN Step(m, fr, TRUE, FALSE)
     ELSE IF m.currentState # NoState
          THEN IF ~canTransitionTo(m.currentState, stateName)
               THEN Step(m, fr, TRUE, FALSE)
               ELSE Step(m, exitCurrent(m, fr), FALSE, FALSE)
          ELSE swapAndEnter(m, fr)

\* StateMachine.getStateNames, as the set of the names.
getStateNames(m) == DOMAIN m.states

\* StateMachine.update: this._currentState?.onUpdate(deltaTime)
machineUpdate(m) ==
  [m |-> m,
   calls |-> IF m.currentState # NoState
             THEN <<HookCall("onUpdate", m.currentState, Undefined,
                             NullName, NullName, m)>>
             ELSE <<>>]

\* (variant: the pointer is not reset)
clearKeepsCurrent(m) ==
  [m |-> [m EXCEPT !.states = [n \in {} |-> NoState]],
   calls |-> IF m.currentState # NoState
             THEN <<HookCall("onExit", m.currentState, Undefined,
                             NullName, NullName, m)>>
             ELSE <<>>]

\* (variant: the registry is not wiped)
clearKeepsRegistry(m) ==
  [m |-> [m EXCEPT !.currentState = NoState],
   calls |-> IF m.currentState # NoState
             THEN <<HookCall("onExit", m.currentState, Undefined,
                             NullName, NullName, m)>>
             ELSE <<>>]

\* StateMachine.clear
clear(m) ==
  [m |-> [m EXCEPT !.currentState = NoState,
                   !.states = [n \in {} |-> NoState]],
   calls |-> IF m.currentState # NoState
             THEN <<HookCall("onExit", m.currentState, Undefined,
                             NullName, NullName, m)>>
             ELSE <<>>]

\* The user code the call is suspended in returns.
hookReturn(m, fr) ==
  IF fr.phase = "onExit" THEN swapAndEnter(m, fr)
  ELSE IF fr.phase = "onEnter" THEN startNotify(m, fr)
  ELSE notifyNext(m, fr)


(* ----------------------------- EventBus ------------------------------ *)
\* src/src/events/EventBus.ts, class EventBus.  emit spans several steps:
\* the listeners are user code that calls back into the bus, so the frame
\* of emitStack is the emit call suspended inside one of them.
MaxBuckets == 2        \* Set objects created by EventBus.on in one behaviour
MaxSubscriptions == 3  \* EventBus.on calls in one behaviour

\* The event names and the listener functions of a behaviour, and the
\* payloads emitted.
EventNames == {"score", ""}
Listeners == {1, 2}
Payloads == {"p", "q"}

\* An entry of a Set's list whose element has been deleted.
Deleted == 0
NoBucket == 0
NoListener == 0

\* A Set is the list of its entries in insertion order: Set.prototype.add
\* appends an element that is not in it, Set.prototype.delete empties the
\* entry, and an iterator walks the list by index and passes over the
\* emptied entries.
setAdd(entries, x) == IF x \in Range(entries) THEN entries ELSE Append(entries, x)
setDelete(entries, x) ==
  [i \in 1..Len(entries) |-> IF entries[i] = x THEN Deleted ELSE entries[i]]
setValues(entries) == SelectSeq(entries, LAMBDA x : x # Deleted)
setSize(entries) == Len(setValues(entries))

\* new EventBus()
NewBus == [listeners |-> [ev \in {} |-> NoBucket], buckets |-> <<>>]

\* this.listeners.delete(event)
deleteBucket(b, event) ==
  [b EXCEPT !.listeners = [ev \in (DOMAIN b.listeners) \ {event} |-> b.listeners[ev]]]

\* EventBus.on: the bus after the call, and the closure returned, which
\* holds the event, the listener and the Set object of this call.
busOn(b, event, listener) ==
  LET has == event \in DOMAIN b.listeners
      bucket == IF has THEN b.listeners[event] ELSE Len(b.buckets) + 1
      b1 == IF has THEN b
            ELSE [listeners |-> [ev \in (DOMAIN b.listeners) \cup {event} |->
                                   IF ev = event THEN bucket ELSE b.listeners[ev]],
                  buckets |-> Append(b.buckets, <<>>)]
  IN [b |-> [b1 EXCEPT !.buckets[bucket] = setAdd(@, listener)],
      closure |-> [event |-> event, listener |-> listener, bucket |-> bucket]]

\* The closure returned by EventBus.on.
busUnsubscribe(b, closure) ==
  LET b1 == [b EXCEPT !.buckets[closure.bucket] = setDelete(@, closure.listener)]
  IN IF setSize(b1.buckets[closure.bucket]) = 0
     THEN deleteBucket(b1, closure.event)
     ELSE b1

\* EventBus.off
busOff(b, event, listener) ==
  IF event \in DOMAIN b.listeners
  THEN LET bucket == b.listeners[event]
           b1 == [b EXCEPT !.buckets[bucket] = setDelete(@, listener)]
       IN IF setSize(b1.buckets[bucket]) = 0 THEN deleteBucket(b1, event) ELSE b1
  ELSE b

\* EventBus.clear(event?): given says that an argument was passed; the
\* test `if (event)` is false for undefined and for the empty string.
busClear(b, event, given) ==
  IF given /\ event # ""
  THEN deleteBucket(b, event)
  ELSE [b EXCEPT !.listeners = [ev \in {} |-> NoBucket]]

\* EventBus.hasListeners
hasListeners(b, event) ==
  IF event \in DOMAIN b.listeners
  THEN setSize(b.buckets[b.listeners[event]]) > 0 ELSE FALSE

\* EventBus.getListenerCount
getListenerCount(b, event) ==
  IF event \in DOMAIN b.listeners
  THEN setSize(b.buckets[b.listeners[event]]) ELSE 0

\* One emit call: its arguments, the Set object it iterates and the index
\* of its iterator, and for the properties: atStart, the listeners of the
\* event when the call began; invoked, the listeners it called and what it
\* passed; touched, that the bus was changed while it ran.
NewEmit(b, event, payload) ==
  LET bucket == IF event \in DOMAIN b.listeners THEN b.listeners[event] ELSE NoBucket
  IN [event |-> event, payload |-> payload, bucket |-> bucket, idx |-> 0,
      atStart |-> IF bucket = NoBucket THEN <<>> ELSE setValues(b.buckets[bucket]),
      invoked |-> <<>>, touched |-> FALSE]

\* The index of the first entry behind i that holds an element, 0 for none.
RECURSIVE nextEntry(_, _)
nextEntry(entries, i) ==
  IF i + 1 > Len(entries) THEN 0
  ELSE IF entries[i + 1] # Deleted THEN i + 1 ELSE nextEntry(entries, i + 1)

\* (variant: the loop hands every listener the event name)
emitNextPassesEvent(b, fr) ==
  LET i == nextEntry(b.buckets[fr.bucket], fr.idx)
  IN IF i = 0 THEN [fr |-> fr, done |-> TRUE]
     ELSE [fr |-> [fr EXCEPT !.idx = i,
                             !.invoked = Append(@, [listener |-> b.buckets[fr.bucket][i],
                                                    payload |-> fr.event])],
           done |-> FALSE]

\* for (const handler of bucket) handler(payload), from the iterator's
\* next() on: the next listener is invoked, or emit returns.
emitNext(b, fr) ==
  LET i == nextEntry(b.buckets[fr.bucket], fr.idx)
  IN IF i = 0 THEN [fr |-> fr, done |-> TRUE]
     ELSE [fr |-> [fr EXCEPT !.idx = i,
                             !.invoked = Append(@, [listener |-> b.buckets[fr.bucket][i],
                                                    payload |-> fr.payload])],
           done |-> FALSE]

\* EventBus.emit up to the first listener it invokes.
busEmit(b, event, payload) ==
  LET fr == NewEmit(b, event, payload)
  IN IF fr.bucket = NoBucket THEN [fr |-> fr, done |-> TRUE]
     ELSE emitNext(b, fr)


(* ------------- the lightweight Engine's component stores ------------- *)
MaxEngineEntities == 2  \* Engine.addEntity calls in one behaviour

\* JavaScript values: undefined, a number, an object with one data field.
JsUndefined == [t |-> "undefined", v |-> 0]
JsNumber(n) == [t |-> "number", v |-> n]
JsObject(n) == [t |-> "object", v |-> n]

\* !value is false for every object and for every number but 0.
Truthy(value) == ~(value.t = "undefined" \/ (value.t = "number" /\ value.v = 0))

\* The ComponentType objects: Position is made by createComponentType, whose
\* create() spreads the defaults and the initial into a new object; Counter
\* is a ComponentType<number>, whose create() returns the initial or 0.
EngineComponents == {"Position", "Counter"}
Initials == {JsUndefined, JsNumber(0), JsNumber(1)}
create(component, initial) ==
  LET n == IF initial = JsUndefined THEN 0 ELSE initial.v
  IN IF component = "Position" THEN JsObject(n) ELSE JsNumber(n)

\* What an updater does with the value it is given.
Updaters == {"read", "write"}

\* Map.set and Map.delete.
mapSet(map, key, value) ==
  [k \in DOMAIN map \cup {key} |-> IF k = key THEN value ELSE map[k]]
mapDelete(map, key) == [k \in DOMAIN map \ {key} |-> map[k]]

NewEngine == [entityCounter |-> 1,
              entityComponentKeys |-> [e \in {} |-> {}],
              componentStores |-> [k \in {} |-> [e \in {} |-> JsUndefined]]]

\* Engine.addEntity; the id it returns is g.entityCounter.
engineAddEntity(g) ==
  [g EXCEPT !.entityCounter = @ + 1,
            !.entityComponentKeys = mapSet(@, g.entityCounter, {})]

\* Engine.removeEntity.
engineRemoveEntity(g, entity) ==
  IF entity \notin DOMAIN g.entityComponentKeys THEN g
  ELSE LET keys == g.entityComponentKeys[entity]
       IN [g EXCEPT
             !.componentStores =
               [k \in DOMAIN @ |-> IF k \in keys THEN mapDelete(@[k], entity)
                                    ELSE @[k]],
             !.entityComponentKeys = mapDelete(@, entity)]

\* Engine.getOrCreateStore.
getOrCreateStore(g, component) ==
  IF component \in DOMAIN g.componentStores THEN g
  ELSE [g EXCEPT !.componentStores = mapSet(@, component, [e \in {} |-> JsUndefined])]

\* Engine.addComponent.
engineAddComponent(g, entity, component, initial) ==
  LET g1 == getOrCreateStore(g, component)
      value == create(component, initial)
  IN [g1 EXCEPT
        !.componentStores[component] = mapSet(@, entity, value),
        !.entityComponentKeys =
          IF entity \in DOMAIN @ THEN [@ EXCEPT ![entity] = @ \cup {component}]
          ELSE @]

\* Engine.getComponent.
engineGetComponent(g, entity, component) ==
  IF component \in DOMAIN g.componentStores
     /\ entity \in DOMAIN g.componentStores[component]
  THEN g.componentStores[component][entity]
  ELSE JsUndefined

\* Engine.hasComponent.
engineHasComponent(g, entity, component) ==
  /\ component \in DOMAIN g.componentStores
  /\ entity \in DOMAIN g.componentStores[component]

\* Engine.removeComponent.
engineRemoveComponent(g, entity, component) ==
  [g EXCEPT
     !.componentStores =
       IF component \in DOMAIN @
       THEN [@ EXCEPT ![component] = mapDelete(@, entity)] ELSE @,
     !.entityComponentKeys =
       IF entity \in DOMAIN @ THEN [@ EXCEPT ![entity] = @ \ {component}]
       ELSE @]

\* The updater runs on the stored value: it can write the field of an
\* object, a number it can only read.
applyUpdater(g, entity, component, updater, value) ==
  IF updater = "write" /\ value.t = "object"
  THEN [g EXCEPT !.componentStores[component][entity] = JsObject(1 - value.v)]
  ELSE g

\* Engine.updateComponent: the engine after the call, the error thrown, and
\* the arguments of the updater's invocations.
updateComponent(g, entity, component, updater) ==
  LET value == engineGetComponent(g, entity, component)
  IN IF ~Truthy(value)
     THEN [g |-> g, x |-> "Error", calls |-> <<>>]
     ELSE [g |-> applyUpdater(g, entity, component, updater, value),
           x |-> NoErr, calls |-> <<value>>]


(* ------------------- ComponentSerializer, EntitySerializer ------------------- *)
MaxThens == 3
MaxPending == 2
MaxFrameNest == 2
MaxRebuiltComponents == 2  \* components the factories create beyond MaxComponents

JsNull == [t |-> "null", v |-> 0]
JsBoolean(b) == [t |-> "boolean", v |-> IF b THEN 1 ELSE 0]
JsFunction == [t |-> "function", v |-> 0]

\* Property keys, as their characters.
KeyId == <<"i", "d">>
KeyEntityId == <<"e", "n", "t", "i", "t", "y", "I", "d">>
KeyEnabled == <<"e", "n", "a", "b", "l", "e", "d">>
KeyWorld == <<"_", "w", "o", "r", "l", "d">>
KeyX == <<"x">>
KeyAlpha == <<"_", "a", "l", "p", "h", "a">>
KeyEntity == <<"e", "n", "t", "i", "t", "y">>
KeyDraw == <<"d", "r", "a", "w">>

\* String.prototype.startsWith, for a prefix of one character.
startsWith(key, ch) == Len(key) > 0 /\ key[1] = ch

\* The fields the component classes declare: a TransformComponent has x; a
\* RenderableComponent has _alpha and an arrow function draw. (The
\* stateMachine and debug fields of a StateMachineComponent are left out: no
\* StateMachineComponent is serialized here.)
classFields(type) ==
  IF type = "Transform" THEN {KeyX}
  ELSE IF type = "Renderable" THEN {KeyAlpha, KeyDraw}
  ELSE {}

\* What the constructors assign, besides id, entityId and _world.
constructed(type) ==
  [k \in classFields(type) \cup {KeyEnabled} |->
     IF k = KeyEnabled THEN JsBoolean(TRUE)
     ELSE IF k = KeyDraw THEN JsFunction
     ELSE JsNumber(0)]

\* The declared properties of component c as they are now.
propsOf(p, h, c) ==
  IF c \in DOMAIN p THEN p[c] ELSE constructed(h.components[c].type)

\* The own enumerable properties of component c: those of the Component
\* base class and those of its class.
ownProperties(p, h, c) ==
  LET own == propsOf(p, h, c)
      e == h.components[c].entityId
  IN [k \in DOMAIN own \cup {KeyId, KeyEntityId, KeyWorld} |->
        IF k = KeyId THEN JsNumber(c)
        ELSE IF k = KeyEntityId THEN JsNumber(e)
        ELSE IF k = KeyWorld
        THEN (IF e # NoEntity /\ h.entities[e].world THEN JsObject(0) ELSE JsNull)
        ELSE own[k]]

\* ComponentSerializer.serializeValue: null, undefined, numbers and booleans
\* are returned as they are (the data fields hold no array and no object).
serializeValue(value) ==
  IF value.t \in {"null", "undefined"} THEN value ELSE value

\* ComponentSerializer.extractProperties
extractProperties(own) ==
  [k \in {key \in DOMAIN own :
             ~(own[key].t = "function" \/ startsWith(key, "_")
               \/ key = KeyEntity)} |->
     serializeValue(own[k])]

\* ComponentSerializer.serialize (the classes have no toJSON / fromJSON)
componentSerialize(p, h, c) ==
  [type |-> h.components[c].type,
   data |-> extractProperties(ownProperties(p, h, c)),
   version |-> "1.0.0"]

\* ComponentSerializer.serializeMany
serializeMany(p, h, comps) ==
  [i \in 1..Len(comps) |-> componentSerialize(p, h, comps[i])]

\* EntitySerializer.inferType (no custom inference function)
inferType(h, e) ==
  LET componentTypes ==
        {h.components[c].type : c \in Range(getAllComponents(h, e))}
  IN IF {"Transform", "Renderable"} \subseteq componentTypes
     THEN "visual-entity" ELSE "generic"

\* EntitySerializer.serialize
entitySerialize(p, h, e) ==
  [id |-> e, type |-> inferType(h, e), active |-> TRUE,
   components |-> serializeMany(p, h, getAllComponents(h, e))]

\* The factory registered for a type: it constructs the component and gives
\* every declared data field the value the serialized data has for it.
factory(p, h, serialized) ==
  LET c == h.nextComponentId
      made == constructed(serialized.type)
  IN [h |-> NewComponentObj(h, serialized.type),
      p |-> mapSet(p, c,
              [k \in DOMAIN made |->
                 IF k \in DOMAIN serialized.data /\ made[k].t # "function"
                 THEN serialized.data[k] ELSE made[k]]),
      c |-> c]

\* ComponentSerializer.deserialize, not strict: without a factory it warns
\* and returns null (no migration is registered).
componentDeserialize(facts, p, h, serialized) ==
  IF serialized.type \notin facts
  THEN [h |-> h, p |-> p, c |-> NoComponent]
  ELSE factory(p, h, serialized)

\* ComponentSerializer.deserializeMany
RECURSIVE deserializeMany(_, _, _, _, _, _)
deserializeMany(facts, p, h, list, i, out) ==
  IF i > Len(list) THEN [h |-> h, p |-> p, components |-> out]
  ELSE LET r == componentDeserialize(facts, p, h, list[i])
       IN deserializeMany(facts, r.p, r.h, list, i + 1,
                          IF r.c = NoComponent THEN out ELSE Append(out, r.c))

\* for (const component of components) entity.addComponent(component)
RECURSIVE addComponents(_, _, _, _)
addComponents(h, e, comps, i) ==
  IF i > Len(comps) THEN h
  ELSE addComponents(addComponent(h, e, comps[i]), e, comps, i + 1)

\* EntitySerializer.deserialize without an entity factory for the type.
entityDeserialize(facts, p, h, serialized) ==
  LET e == h.nextEntityId
      r == deserializeMany(facts, p, createEntity(h), serialized.components,
                           1, <<>>)
  IN [h |-> addComponents(r.h, e, r.components, 1), p |-> r.p, entity |-> e]


(* ------------------------------- state ------------------------------- *)
\* removed: the entities a system passed to World.removeEntity; counted:
\* those of them the live map held at that call; destroyed: the entities of
\* the live map a system called Entity.destroy on; worldDestroyed: a system
\* called World.destroy.
NewTick == [removed |-> {}, counted |-> {}, destroyed |-> {},
            worldDestroyed |-> FALSE]

\* Engine.forEachEntity: the engine (the stores it asked for exist now) and
\* the entities it passed to the handler. A Map is kept here without its
\* insertion order; the entities are listed by ascending id.
RECURSIVE smallest(_, _, _)
smallest(stores, i, best) ==
  IF i > Len(stores) THEN best
  ELSE smallest(stores, i + 1,
         IF Cardinality(DOMAIN stores[i]) < Cardinality(DOMAIN best)
         THEN stores[i] ELSE best)

RECURSIVE withStores(_, _, _)
withStores(g, list, i) ==
  IF i > Len(list) THEN g
  ELSE withStores(getOrCreateStore(g, list[i]), list, i + 1)

forEachEntity(g, list) ==
  IF Len(list) = 0
  THEN [g |-> g, handled |-> DOMAIN g.entityComponentKeys]
  ELSE LET g1 == withStores(g, list, 1)
           stores == [i \in 1..Len(list) |-> g1.componentStores[list[i]]]
           smallestStore == smallest(stores, 1, stores[1])
       IN [g |-> g1,
           handled |-> {entity \in DOMAIN smallestStore :
                          \A i \in 1..Len(list) :
                            entity \in DOMAIN g1.componentStores[list[i]]}]

(* --------------------------- Engine: the loop ------------------------ *)
\* The widths resize() is called with; 1 is also the width the constructor
\* reads off the canvas.
RendererWidths == {1, 2}

\* The loop fields of a new Engine. resolved: the `ready` promise has been
\* fulfilled; thens: the callbacks start() and resize() attached to it that
\* have not run yet, in order; pending: the animation-frame callbacks
\* requested and neither run nor cancelled; handlePending: the one
\* frameHandle names is among them. updated: the step just taken ran the
\* systems' update. startCalled, stopped, restarted: start() has been called;
\* stop() has been called after a start() and no start() since; the last of
\* these calls is a start() that followed such a stop().
NewEngineRun ==
  [running |-> FALSE, startRequested |-> FALSE, resolved |-> FALSE,
   thens |-> <<>>, pending |-> 0, handlePending |-> FALSE,
   desiredWidth |-> 1, rendererWidth |-> 0, updated |-> FALSE,
   startCalled |-> FALSE, stopped |-> FALSE, restarted |-> FALSE]

\* this.frameHandle = requestAnimationFrame(this.loop)
engineRequestFrame(r) == [r EXCEPT !.pending = @ + 1, !.handlePending = TRUE]

\* cancelAnimationFrame(this.frameHandle)
engineCancelFrame(r) ==
  IF r.handlePending THEN [r EXCEPT !.pending = @ - 1, !.handlePending = FALSE]
  ELSE r

\* Engine.loop
engineLoop(r) ==
  IF ~r.running THEN r
  ELSE [engineRequestFrame(r) EXCEPT !.updated = TRUE]

\* Engine.start
engineStart(r) ==
  IF r.running \/ r.startRequested THEN r
  ELSE [r EXCEPT !.startRequested = TRUE,
                 !.thens = Append(@, [f |-> "start", width |-> 0])]

\* The callback start() attached to `ready`.
startWhenReady(r) ==
  IF r.running THEN r ELSE engineLoop([r EXCEPT !.running = TRUE])

\* Engine.stop
engineStop(r) ==
  IF ~r.running THEN r ELSE engineCancelFrame([r EXCEPT !.running = FALSE])

\* Engine.resize
engineResize(r, width) ==
  [r EXCEPT !.desiredWidth = width,
            !.thens = Append(@, [f |-> "resize", width |-> width])]

\* The callback resize() attached to `ready`.
resizeWhenReady(r, width) == [r EXCEPT !.rendererWidth = width]

(* ----------------------------- WorldEngine --------------------------- *)
\* The fields of a new WorldEngine, and the animation-frame callbacks
\* requested and neither run nor cancelled (handlePending: the one
\* frameHandle names is among them).
NewWorldEngine == [running |-> FALSE, pending |-> 0, handlePending |-> FALSE]

\* (variant: the renderer is called before 'engine:preRender' is emitted)
loopBodyRenderFirst ==
  <<"input.beginFrame", "engine:preUpdate", "world.update",
    "engine:postUpdate", "render", "engine:preRender", "engine:postRender",
    "input.endFrame">>

\* The statements of WorldEngine.loop after requestAnimationFrame, in order.
loopBody ==
  <<"input.beginFrame", "engine:preUpdate", "world.update",
    "engine:postUpdate", "engine:preRender", "render", "engine:postRender",
    "input.endFrame">>

\* The statements of the loop that run code of the game: the listeners of an
\* event, the systems of the World.
RunsGameCode(step) ==
  step \in {"engine:preUpdate", "world.update", "engine:postUpdate",
            "engine:preRender", "engine:postRender"}

\* this.frameHandle = requestAnimationFrame(this.loop)
requestFrame(w) == [w EXCEPT !.pending = @ + 1, !.handlePending = TRUE]

\* cancelAnimationFrame(this.frameHandle)
cancelFrame(w) ==
  IF w.handlePending THEN [w EXCEPT !.pending = @ - 1, !.handlePending = FALSE]
  ELSE w

\* WorldEngine.loop up to input.beginFrame: the engine, and the call stack
\* with the frame the loop began, if it began one. byStart: start() called it.
loop(w, frames, byStart) ==
  IF ~w.running THEN [w |-> w, frames |-> frames]
  ELSE [w |-> requestFrame(w),
        frames |-> Append(frames, [pc |-> 1, steps |-> <<loopBody[1]>>,
                                   byStart |-> byStart])]

\* WorldEngine.start up to its call of loop.
start(w, frames) ==
  IF w.running THEN [w |-> w, frames |-> frames]
  ELSE loop([w EXCEPT !.running = TRUE], frames, TRUE)

\* What WorldEngine.start emits once loop has returned.
startEmits == <<"engine:started">>

\* WorldEngine.stop: the engine, and what it emitted.
stop(w) ==
  IF ~w.running THEN [w |-> w, emitted |-> <<>>]
  ELSE [w |-> cancelFrame([w EXCEPT !.running = FALSE]),
        emitted |-> <<"engine:stopped">>]

Init ==
  /\ nextEntityId = 0
  /\ nextComponentId = 0
  /\ entities = <<>>
  /\ components = <<>>
  /\ systemObjs = [s \in SystemIds |-> [enabled |-> TRUE, onInit |-> 0, onDestroy |-> 0]]
  /\ world = [entities |-> <<>>, systems |-> <<>>, entitiesToAdd |-> <<>>,
              entitiesToRemove |-> <<>>, isUpdating |-> FALSE]
  /\ stack = <<>>
  /\ last = [op |-> "new World", e |-> NoEntity, c |-> NoComponent,
             x |-> NoErr, inTick |-> FALSE, inMap |-> FALSE,
             ran |-> <<>>, visited |-> <<>>, touched |-> FALSE]
  /\ tick = NewTick
  /\ idLog = <<>>
  /\ registered = <<>>
  /\ machine = NewMachine
  /\ unsubscribers = <<>>
  /\ succeeded = FALSE
  /\ smStack = <<>>
  /\ smLast = [op |-> "new StateMachine", stateName |-> NullName,
               newState |-> NoState, result |-> FALSE, known |-> FALSE,
               approved |-> FALSE, before |-> NoState, beforeName |-> NullName,
               atStart |-> <<>>, calls |-> <<>>]
  /\ bus = NewBus
  /\ closures = <<>>
  /\ emitStack = <<>>
  /\ busLast = [op |-> "new EventBus", event |-> "", listener |-> NoListener,
                payload |-> "", closure |-> 0, atStart |-> <<>>,
                invoked |-> <<>>, touched |-> FALSE]
  /\ engine = NewEngine
  /\ engLast = [op |-> "new Engine", entity |-> 0, component |-> "",
                x |-> NoErr, had |-> FALSE, value |-> JsUndefined,
                calls |-> <<>>]
  /\ props = <<>>
  /\ factories = {}
  /\ snapshot = [taken |-> FALSE, serialized |-> <<>>, original |-> <<>>]
  /\ serLast = [op |-> "none", entity |-> NoEntity, original |-> <<>>,
                rebuilt |-> <<>>, registered |-> {}]
  /\ smsLast = [ticks |-> 0, forwarded |-> <<>>]
  /\ engRun = NewEngineRun
  /\ we = NewWorldEngine
  /\ weStack = <<>>
  /\ weLast = [op |-> "new WorldEngine", wasRunning |-> FALSE,
               emitted |-> <<>>, steps |-> <<>>, stopped |-> FALSE]

EntityIds == 0..(nextEntityId - 1)
ComponentIds == 0..(nextComponentId - 1)

\* A World.update call is executing (its loop is inside a system's update()).
InTick == stack # <<>>

Apply(h) ==
  /\ nextEntityId' = h.nextEntityId
  /\ nextComponentId' = h.nextComponentId
  /\ entities' = h.entities
  /\ components' = h.components
  /\ systemObjs' = h.systemObjs
  /\ world' = h.world

\* What `last` records about a call: the method, its entity argument (the
\* receiver of an Entity method), the exception it raised, and the World as
\* the call found it; c is the component argument, set by CallWith.
Called(op, e, x) ==
  [op |-> op, e |-> e, c |-> NoComponent, x |-> x, inTick |-> InTick,
   inMap |-> e \in Range(world.entities),
   ran |-> <<>>, visited |-> <<>>, touched |-> FALSE]

\* A call made by the driver or by the running system's update(): the heap
\* takes the call's effects; an exception unwinds every World.update in
\* progress (no frame has a catch or finally).
Effects(op, e, s, r, touches) ==
  /\ Apply(r.h)
  /\ stack' = IF r.x # NoErr THEN <<>>
              ELSE [i \in 1..Len(stack) |->
                      [stack[i] EXCEPT !.touched = @ \/ touches]]
  /\ UNCHANGED nonEcsVars
  /\ tick' = IF InTick /\ op = "removeEntity"
             THEN [tick EXCEPT
                     !.removed = @ \cup {e},
                     !.counted = @ \cup ({e} \cap Range(world.entities))]
             ELSE IF InTick /\ op = "Entity.destroy"
             THEN [tick EXCEPT
                     !.destroyed = @ \cup ({e} \cap Range(world.entities))]
             ELSE tick
  /\ idLog' = IF op \in {"new Entity", "createEntity"}
              THEN Append(idLog, r.h.entities[e].id) ELSE idLog
  /\ registered' = IF op = "addSystem" THEN Append(registered, s)
                   ELSE IF op = "removeSystem" THEN MapDelete(registered, s)
                   ELSE registered

Call(op, e, s, r, touches) ==
  /\ Effects(op, e, s, r, touches)
  /\ last' = Called(op, e, r.x)

\* A call of an Entity method that takes the component c.
CallWith(op, e, c, r) ==
  /\ Effects(op, e, NoSystem, r, FALSE)
  /\ last' = [Called(op, e, r.x) EXCEPT !.c = c]

QueueRoom(q) == world.isUpdating => Len(q) < MaxQueue

(* ------------------------------ actions ------------------------------ *)
\* new Entity() that is not (yet) given to the World
NewEntity ==
  /\ nextEntityId < MaxEntities
  /\ Call("new Entity", nextEntityId, NoSystem, Ok(NewEntityObj(H)), FALSE)

CreateEntity ==
  /\ nextEntityId < MaxEntities
  /\ QueueRoom(world.entitiesToAdd)
  /\ Call("createEntity", nextEntityId, NoSystem, Ok(createEntity(H)), FALSE)

AddEntity ==
  \E e \in EntityIds :
    /\ QueueRoom(world.entitiesToAdd)
    /\ Call("addEntity", e, NoSystem, Ok(addEntity(H, e)), FALSE)

RemoveEntity ==
  \E e \in EntityIds :
    /\ QueueRoom(world.entitiesToRemove)
    /\ Call("removeEntity", e, NoSystem, removeEntity(H, e, 1), FALSE)

EntityDestroy ==
  \E e \in EntityIds :
    /\ QueueRoom(world.entitiesToRemove)
    /\ Call("Entity.destroy", e, NoSystem, entityDestroy(H, e, 1), FALSE)

\* entity.addComponent(new XComponent())
AddNewComponent ==
  \E e \in EntityIds, type \in CompTypes :
    /\ nextComponentId < MaxComponents
    /\ CallWith("addComponent", e, nextComponentId,
                Ok(addComponent(NewComponentObj(H, type), e, nextComponentId)))

\* entity.addComponent(c) for a component that exists already
AddComponent ==
  \E e \in EntityIds, c \in ComponentIds :
    /\ Len(getComponents(H, e, components[c].type)) < MaxComponents
    /\ CallWith("addComponent", e, c, Ok(addComponent(H, e, c)))

RemoveComponent ==
  \E e \in EntityIds, c \in ComponentIds :
    CallWith("removeComponent", e, c, Ok(removeComponent(H, e, c)))

\* Systems are registered and unregistered by the driver, between ticks.
AddSystem ==
  \E s \in SystemIds :
    /\ ~InTick
    /\ Len(world.systems) < MaxSystems
    /\ systemObjs[s].onInit < MaxHookCalls
    /\ Call("addSystem", NoEntity, s, Ok(addSystem(H, s)), TRUE)

RemoveSystem ==
  \E s \in SystemIds :
    /\ ~InTick
    /\ Call("removeSystem", NoEntity, s, Ok(removeSystem(H, s)), TRUE)

\* system.enabled = !system.enabled
SetEnabled ==
  \E s \in SystemIds :
    Call("enabled", NoEntity, s,
         Ok([H EXCEPT !.systemObjs[s].enabled = ~@]), FALSE)

\* World.destroy; the loops in progress keep the array they iterate, which
\* is World._systems no longer.
WorldDestroy ==
  LET r == worldDestroy(H, 1)
  IN /\ Apply(r.h)
     /\ stack' = IF r.x # NoErr THEN <<>>
                 ELSE [i \in 1..Len(stack) |->
                         IF stack[i].live
                         THEN [stack[i] EXCEPT !.live = FALSE,
                                               !.arr = world.systems,
                                               !.touched = TRUE]
                         ELSE stack[i]]
     /\ last' = Called("World.destroy", NoEntity, r.x)
     /\ tick' = IF InTick THEN [tick EXCEPT !.worldDestroyed = TRUE] ELSE tick
     /\ registered' = <<>>
     /\ idLog' = idLog
     /\ UNCHANGED nonEcsVars

\* The loop of the World.update call `fr`, with `below` the calls it is
\* nested in, from the iterator's next() to the next update() it invokes
\* or to the return of World.update.
RunLoop(h, fr, below, op) ==
  LET f == advance(h, fr)
      r == finishUpdate(h)
      outer == below = <<>>
  IN IF ~f.done
     THEN /\ Apply(h)
          /\ stack' = Append(below, f)
          /\ last' = Called(op, NoEntity, NoErr)
          /\ tick' = IF op = "update" /\ outer THEN NewTick ELSE tick
          /\ UNCHANGED <<idLog, registered>>
          /\ UNCHANGED nonEcsVars
     ELSE /\ Apply(r.h)
          /\ stack' = IF r.x # NoErr THEN <<>> ELSE below
          /\ last' = [Called("update returned", NoEntity, r.x) EXCEPT
                        !.ran = f.ran, !.visited = f.visited,
                        !.touched = f.touched]
          /\ tick' = IF op = "update" /\ outer THEN NewTick ELSE tick
          /\ UNCHANGED <<idLog, registered>>
          /\ UNCHANGED nonEcsVars

\* The driver calls World.update(deltaTime).
Update ==
  /\ ~InTick
  /\ RunLoop([H EXCEPT !.world.isUpdating = TRUE], NewFrame, stack, "update")

\* The running system's update() calls World.update(deltaTime).
NestedUpdate ==
  /\ InTick
  /\ Len(stack) < MaxNest
  /\ RunLoop([H EXCEPT !.world.isUpdating = TRUE], NewFrame, stack, "update")

\* The running system's update() returns.
SystemReturn ==
  /\ InTick
  /\ RunLoop(H, stack[Len(stack)], SubSeq(stack, 1, Len(stack) - 1), "return")

\* The running system's update() throws: no World.update in progress has a
\* catch or a finally, so all of them are abandoned where they are.
SystemThrows ==
  /\ InTick
  /\ Apply(H)
  /\ stack' = <<>>
  /\ last' = Called("update threw", NoEntity, "Error")
  /\ UNCHANGED <<tick, idLog, registered>>
  /\ UNCHANGED nonEcsVars

(* ----------------------- StateMachine actions ------------------------ *)
\* User code of a setState call is executing.
InHook == smStack # <<>>

\* What smLast records about a call that is not a setState.
SmCalled(op) ==
  [op |-> op, stateName |-> NullName, newState |-> NoState, result |-> FALSE,
   known |-> FALSE, approved |-> FALSE, before |-> NoState,
   beforeName |-> NullName, atStart |-> <<>>, calls |-> <<>>]

\* What smLast records about a setState call: its argument and the state
\* registered under it, whether the name was registered (known) and the
\* current state, if any, let it pass (approved) when the call was made,
\* getCurrentState() and getCurrentStateName() at that time, and once it has
\* returned: the return value, the user code it invoked, and the callback
\* list as its loop found it.
SmSetState(op, r, known, approved) ==
  [op |-> op, stateName |-> r.fr.stateName, newState |-> r.fr.newState,
   result |-> r.result, known |-> known, approved |-> approved,
   before |-> r.fr.before, beforeName |-> NameOrNull(r.fr.before),
   atStart |-> IF r.done THEN r.fr.atStart ELSE <<>>,
   calls |-> IF r.done THEN r.fr.calls ELSE <<>>]

\* machine.addState(state), by the driver
AddState ==
  \E o \in StateObjs :
    /\ ~InHook
    /\ machine' = addState(machine, o)
    /\ smLast' = SmCalled("addState")
    /\ UNCHANGED <<unsubscribers, succeeded, smStack>>
    /\ UNCHANGED nonFsmVars

\* machine.addState(state) with a state whose name object 1 has too
ReplaceState ==
  \E o \in Replacements :
    /\ ~InHook
    /\ machine' = addState(machine, o)
    /\ smLast' = SmCalled("addState")
    /\ UNCHANGED <<unsubscribers, succeeded, smStack>>
    /\ UNCHANGED nonFsmVars

\* machine.onTransition(cb), by the driver or by the running user code
OnTransition ==
  \E cb \in Callbacks :
    /\ Len(machine.transitionCallbacks) < MaxCallbacks
    /\ Len(unsubscribers) < MaxRegistrations
    /\ machine' = onTransition(machine, cb)
    /\ unsubscribers' = Append(unsubscribers, [cb |-> cb, invoked |-> FALSE])
    /\ smLast' = SmCalled("onTransition")
    /\ UNCHANGED <<succeeded, smStack>>
    /\ UNCHANGED nonFsmVars

\* A closure returned by onTransition(cb) is called, by the driver or by
\* the running user code.
Unsubscribe ==
  \E k \in 1..Len(unsubscribers) :
    /\ machine' = unsubscribe(machine, unsubscribers[k].cb)
    /\ unsubscribers' = [unsubscribers EXCEPT ![k].invoked = TRUE]
    /\ smLast' = SmCalled("unsubscribe")
    /\ UNCHANGED <<succeeded, smStack>>
    /\ UNCHANGED nonFsmVars

\* A setState call begins: it returns false at once or is inside user code.
BeginSetState(stateName) ==
  LET r == setState(machine, stateName)
  IN /\ machine' = r.m
     /\ smStack' = IF r.done THEN smStack ELSE Append(smStack, r.fr)
     /\ smLast' = SmSetState(IF r.done THEN "setState returned"
                             ELSE "setState in hook", r,
                             stateName \in DOMAIN machine.states,
                             \/ machine.currentState = NoState
                             \/ canTransitionTo(machine.currentState, stateName))
     /\ succeeded' = (succeeded \/ ~r.done)
     /\ UNCHANGED unsubscribers
     /\ UNCHANGED nonFsmVars

\* The driver calls machine.setState(stateName).
SetState ==
  \E stateName \in StateNames :
    /\ ~InHook
    /\ BeginSetState(stateName)

\* The running user code calls machine.setState(stateName).
NestedSetState ==
  \E stateName \in StateNames :
    /\ InHook
    /\ Len(smStack) < MaxSetStateNest
    /\ BeginSetState(stateName)

\* The running user code returns to the setState call that invoked it.
HookReturn ==
  /\ InHook
  /\ LET below == SubSeq(smStack, 1, Len(smStack) - 1)
         r == hookReturn(machine, smStack[Len(smStack)])
     IN /\ machine' = r.m
        /\ smStack' = IF r.done THEN below ELSE Append(below, r.fr)
        /\ smLast' = SmSetState(IF r.done THEN "setState returned"
                                ELSE "hook returned", r, TRUE, TRUE)
  /\ UNCHANGED <<unsubscribers, succeeded>>
  /\ UNCHANGED nonFsmVars

\* machine.clear(), by the driver
Clear ==
  /\ ~InHook
  /\ machine' = clear(machine).m
  /\ succeeded' = FALSE
  /\ smLast' = [SmCalled("clear") EXCEPT
                  !.before = machine.currentState,
                  !.beforeName = NameOrNull(machine.currentState),
                  !.calls = clear(machine).calls]
  /\ UNCHANGED <<unsubscribers, smStack>>
  /\ UNCHANGED nonFsmVars

\* machine.update(deltaTime), by the driver
MachineUpdate ==
  /\ ~InHook
  /\ machine' = machineUpdate(machine).m
  /\ smLast' = [SmCalled("update") EXCEPT
                  !.before = machine.currentState,
                  !.beforeName = NameOrNull(machine.currentState),
                  !.calls = machineUpdate(machine).calls]
  /\ UNCHANGED <<unsubscribers, succeeded, smStack>>
  /\ UNCHANGED nonFsmVars

(* ---------------------- StateMachineComponent ------------------------ *)
\* new StateMachineComponent({ context, initialState }): the machine the
\* constructor leaves in this.stateMachine; given is false when the options
\* have no initialState.
newStateMachineComponent(initialState, given) ==
  IF given /\ initialState # ""
  THEN setState(NewMachine, initialState).m
  ELSE NewMachine

\* StateMachineComponent.isInState
isInState(m, stateName) == getCurrentStateName(m) = stateName

\* The driver constructs a StateMachineComponent; the machine of the model
\* is from now on the machine of this component.
ConstructComponent ==
  \E initialState \in StateNames, given \in BOOLEAN :
    /\ ~InHook
    /\ machine' = newStateMachineComponent(initialState, given)
    /\ unsubscribers' = <<>>
    /\ succeeded' = FALSE
    /\ smLast' = [SmCalled("new StateMachineComponent") EXCEPT
                    !.stateName = IF given THEN initialState ELSE NullName,
                    !.known = given]
    /\ UNCHANGED smStack
    /\ UNCHANGED nonFsmVars

(* ------------------------- EventBus actions -------------------------- *)
\* A listener of an emit call is executing.
InDispatch == emitStack # <<>>

\* What busLast records about a call: the method and its arguments (for an
\* unsubscribe closure its position in `closures`, the event and the
\* listener it holds).
BusCalled(op, event, listener, k) ==
  [op |-> op, event |-> event, listener |-> listener, payload |-> "",
   closure |-> k, atStart |-> <<>>, invoked |-> <<>>, touched |-> FALSE]

\* The emit call in progress, if any, has seen the bus change.
Touch == [i \in 1..Len(emitStack) |-> [emitStack[i] EXCEPT !.touched = TRUE]]

\* bus.on(event, listener), by the driver or by the running listener
On ==
  \E event \in EventNames, listener \in Listeners :
    /\ Len(closures) < MaxSubscriptions
    /\ event \notin DOMAIN bus.listeners => Len(bus.buckets) < MaxBuckets
    /\ bus' = busOn(bus, event, listener).b
    /\ closures' = Append(closures, busOn(bus, event, listener).closure)
    /\ emitStack' = Touch
    /\ busLast' = BusCalled("on", event, listener, 0)
    /\ UNCHANGED nonBusVars

\* bus.off(event, listener), by the driver or by the running listener
Off ==
  \E event \in EventNames, listener \in Listeners :
    /\ bus' = busOff(bus, event, listener)
    /\ emitStack' = Touch
    /\ busLast' = BusCalled("off", event, listener, 0)
    /\ UNCHANGED closures
    /\ UNCHANGED nonBusVars

\* A closure returned by bus.on is called, by the driver or by the running
\* listener.
BusUnsubscribe ==
  \E k \in 1..Len(closures) :
    /\ bus' = busUnsubscribe(bus, closures[k])
    /\ emitStack' = Touch
    /\ busLast' = BusCalled("unsubscribe", closures[k].event, closures[k].listener, k)
    /\ UNCHANGED closures
    /\ UNCHANGED nonBusVars

\* bus.clear(event), by the driver or by the running listener
BusClear ==
  \E event \in EventNames :
    /\ bus' = busClear(bus, event, TRUE)
    /\ emitStack' = Touch
    /\ busLast' = BusCalled("clear(event)", event, NoListener, 0)
    /\ UNCHANGED closures
    /\ UNCHANGED nonBusVars

\* bus.clear(), by the driver or by the running listener
BusClearAll ==
  /\ bus' = busClear(bus, "", FALSE)
  /\ emitStack' = Touch
  /\ busLast' = BusCalled("clear()", "", NoListener, 0)
  /\ UNCHANGED closures
  /\ UNCHANGED nonBusVars

\* What busLast records about an emit call: once it has returned, the
\* listeners of the event when it began, the listeners it invoked with what
\* it passed them, and whether the bus was changed meanwhile.
BusEmitted(r) ==
  [op |-> IF r.done THEN "emit returned" ELSE "emit in listener",
   event |-> r.fr.event, listener |-> NoListener, payload |-> r.fr.payload,
   closure |-> 0,
   atStart |-> IF r.done THEN r.fr.atStart ELSE <<>>,
   invoked |-> IF r.done THEN r.fr.invoked ELSE <<>>,
   touched |-> r.done /\ r.fr.touched]

\* The driver calls bus.emit(event, payload).
Emit ==
  \E event \in EventNames, payload \in Payloads :
    /\ ~InDispatch
    /\ LET r == busEmit(bus, event, payload)
       IN /\ emitStack' = IF r.done THEN <<>> ELSE <<r.fr>>
          /\ busLast' = BusEmitted(r)
    /\ UNCHANGED <<bus, closures>>
    /\ UNCHANGED nonBusVars

\* The running listener returns to the emit call that invoked it.
ListenerReturn ==
  /\ InDispatch
  /\ LET r == emitNext(bus, emitStack[1])
     IN /\ emitStack' = IF r.done THEN <<>> ELSE <<r.fr>>
        /\ busLast' = BusEmitted(r)
  /\ UNCHANGED <<bus, closures>>
  /\ UNCHANGED nonBusVars

(* ----------------------- the Engine's operations ---------------------- *)
\* The entity ids the driver passes: those addEntity can have returned.
EngineEntities == 1..MaxEngineEntities

\* A call of an Engine method that returns: had and value are what
\* hasComponent and getComponent answered before it.
EngineCalled(op, entity, component, x, calls) ==
  [op |-> op, entity |-> entity, component |-> component, x |-> x,
   had |-> component # "" /\ engineHasComponent(engine, entity, component),
   value |-> IF component = "" THEN JsUndefined
             ELSE engineGetComponent(engine, entity, component),
   calls |-> calls]

\* The driver calls engine.addEntity().
EngineAddEntity ==
  /\ engine.entityCounter <= MaxEngineEntities
  /\ engine' = engineAddEntity(engine)
  /\ engLast' = EngineCalled("addEntity", engine.entityCounter, "", NoErr, <<>>)
  /\ UNCHANGED nonEngVars

\* The driver calls engine.removeEntity(entity).
EngineRemoveEntity ==
  \E entity \in EngineEntities :
    /\ engine' = engineRemoveEntity(engine, entity)
    /\ engLast' = EngineCalled("removeEntity", entity, "", NoErr, <<>>)
    /\ UNCHANGED nonEngVars

\* The driver calls engine.addComponent(entity, component, initial).
EngineAddComponent ==
  \E entity \in EngineEntities, component \in EngineComponents,
     initial \in Initials :
    /\ engine' = engineAddComponent(engine, entity, component, initial)
    /\ engLast' = EngineCalled("addComponent", entity, component, NoErr, <<>>)
    /\ UNCHANGED nonEngVars

\* The driver calls engine.removeComponent(entity, component).
EngineRemoveComponent ==
  \E entity \in EngineEntities, component \in EngineComponents :
    /\ engine' = engineRemoveComponent(engine, entity, component)
    /\ engLast' = EngineCalled("removeComponent", entity, component, NoErr, <<>>)
    /\ UNCHANGED nonEngVars

\* The driver calls engine.updateComponent(entity, component, updater).
EngineUpdateComponent ==
  \E entity \in EngineEntities, component \in EngineComponents,
     updater \in Updaters :
    LET r == updateComponent(engine, entity, component, updater)
    IN /\ engine' = r.g
       /\ engLast' = EngineCalled("updateComponent", entity, component,
                                  r.x, r.calls)
       /\ UNCHANGED nonEngVars

\* The lists of component types forEachEntity is called with.
ComponentLists ==
  {<<>>} \cup {<<a>> : a \in EngineComponents}
         \cup {<<a, b>> : a \in EngineComponents, b \in EngineComponents}

\* The driver calls engine.forEachEntity(components, handler) with a handler
\* that notes the entity it is given.
EngineForEachEntity ==
  \E list \in ComponentLists :
    LET r == forEachEntity(engine, list)
    IN /\ engine' = r.g
       /\ engLast' = [EngineCalled("forEachEntity", 0, "", NoErr, <<>>) EXCEPT
                        !.calls = SelectSeq([i \in 1..MaxEngineEntities |-> i],
                                            LAMBDA e : e \in r.handled)]
       /\ UNCHANGED nonEngVars

(* --------------------- the serializers' operations -------------------- *)
\* The data fields of a component: its own enumerable properties that hold
\* no function, but for the identity and the back-references the
\* constructor and Entity.addComponent set.
dataFields(own) ==
  [k \in {key \in DOMAIN own :
             own[key].t # "function"
             /\ key \notin {KeyId, KeyEntityId, KeyWorld}} |-> own[k]]

\* The components of entity e in getAllComponents() order, each with its
\* type and its data fields.
Described(p, h, e) ==
  LET comps == getAllComponents(h, e)
  IN [i \in 1..Len(comps) |->
        [type |-> h.components[comps[i]].type,
         fields |-> dataFields(ownProperties(p, h, comps[i]))]]

\* The driver or a system writes a data field a component's class declares.
SetField ==
  \E c \in ComponentIds, value \in {0, 1} :
    \E key \in DOMAIN dataFields(propsOf(props, H, c)) \ {KeyEnabled} :
      /\ propsOf(props, H, c)[key].v # value
      /\ props' = mapSet(props, c,
                    [propsOf(props, H, c) EXCEPT ![key].v = value])
      /\ UNCHANGED <<factories, snapshot, serLast>>
      /\ UNCHANGED <<ecsVars, nonSerVars>>

\* ComponentSerializer.register(typeName, factory)
RegisterFactory ==
  \E type \in CompTypes :
    /\ type \notin factories
    /\ factories' = factories \cup {type}
    /\ UNCHANGED <<props, snapshot, serLast>>
    /\ UNCHANGED <<ecsVars, nonSerVars>>

\* EntitySerializer.serialize(entity)
SerializeEntity ==
  \E e \in EntityIds :
    /\ snapshot' = [taken |-> TRUE, serialized |-> entitySerialize(props, H, e),
                    original |-> Described(props, H, e)]
    /\ snapshot' # snapshot
    /\ UNCHANGED <<props, factories, serLast>>
    /\ UNCHANGED <<ecsVars, nonSerVars>>

\* EntitySerializer.deserialize(world, serialized), outside a tick
DeserializeEntity ==
  /\ snapshot.taken
  /\ ~InTick
  /\ nextEntityId < MaxEntities
  /\ nextComponentId + Len(snapshot.serialized.components)
       <= MaxComponents + MaxRebuiltComponents
  /\ LET r == entityDeserialize(factories, props, H, snapshot.serialized)
     IN /\ Apply(r.h)
        /\ props' = r.p
        /\ idLog' = Append(idLog, r.h.entities[r.entity].id)
        /\ last' = Called("EntitySerializer.deserialize", r.entity, NoErr)
        /\ serLast' = [op |-> "deserialize", entity |-> r.entity,
                       original |-> snapshot.original,
                       rebuilt |-> Described(r.p, r.h, r.entity),
                       registered |-> factories]
  /\ UNCHANGED <<stack, tick, registered>>
  /\ UNCHANGED <<factories, snapshot>>
  /\ UNCHANGED nonSerVars

(* ------------------------- StateMachineSystem ------------------------ *)
\* Component.enabled of component c.
componentEnabled(p, h, c) == propsOf(p, h, c)[KeyEnabled].v = 1

\* StateMachineSystem.getRequiredComponents
getRequiredComponents == <<"StateMachine">>

\* StateMachineSystem.update: the components whose stateMachine.update it
\* called, in order. Of each entity of the query it takes
\* entity.getComponent('StateMachine'), the first of the type.
stateMachineSystemUpdate(p, h) ==
  LET found == getEntitiesWithComponents(h, getRequiredComponents)
      smComponent == [i \in 1..Len(found) |->
                        getComponent(h, found[i], "StateMachine")]
  IN SelectSeq(smComponent, LAMBDA c : componentEnabled(p, h, c))

\* entity.addComponent(new StateMachineComponent(context))
AddStateMachineComponent ==
  \E e \in EntityIds :
    /\ nextComponentId < MaxComponents
    /\ CallWith("addComponent", e, nextComponentId,
         Ok(addComponent(NewComponentObj(H, "StateMachine"), e, nextComponentId)))

\* component.enabled = !component.enabled
SetComponentEnabled ==
  \E c \in ComponentIds :
    /\ props' = mapSet(props, c,
         [propsOf(props, H, c) EXCEPT
            ![KeyEnabled] = JsBoolean(~componentEnabled(props, H, c))])
    /\ UNCHANGED <<factories, snapshot, serLast>>
    /\ UNCHANGED <<ecsVars, nonSerVars>>

\* World.update reaches the enabled StateMachineSystem and calls its update.
StateMachineSystemUpdate ==
  /\ ~InTick
  /\ smsLast' = [ticks |-> 1 - smsLast.ticks,
                 forwarded |-> stateMachineSystemUpdate(props, H)]
  /\ UNCHANGED <<ecsVars, fsmVars, busVars, engVars, serVars, runVars, weVars>>

(* ------------------------ Engine: loop actions ----------------------- *)
\* The fields as a call finds them: no systems' update has run in it yet.
Quiet(r) == [r EXCEPT !.updated = FALSE]

\* The game calls engine.start().
EngineStart ==
  /\ engRun' = [engineStart(Quiet(engRun)) EXCEPT
                  !.startCalled = TRUE, !.stopped = FALSE,
                  !.restarted = engRun.stopped \/ engRun.restarted]
  /\ UNCHANGED nonRunVars

\* The game calls engine.stop().
EngineStop ==
  /\ engRun' = [engineStop(Quiet(engRun)) EXCEPT
                  !.stopped = engRun.startCalled, !.restarted = FALSE]
  /\ UNCHANGED nonRunVars

\* The game calls engine.resize(width, height).
EngineResize ==
  \E width \in RendererWidths :
    /\ width # engRun.desiredWidth
    /\ Len(engRun.thens) < MaxThens
    /\ engRun' = engineResize(Quiet(engRun), width)
    /\ UNCHANGED nonRunVars

\* app.init() resolves; the constructor's callback resizes the renderer.
ReadyResolves ==
  /\ ~engRun.resolved
  /\ engRun' = [Quiet(engRun) EXCEPT !.resolved = TRUE,
                                     !.rendererWidth = engRun.desiredWidth]
  /\ UNCHANGED nonRunVars

\* The next callback attached to the fulfilled `ready` runs.
ReadyCallback ==
  /\ engRun.resolved
  /\ engRun.thens # <<>>
  /\ engRun.pending < MaxPending
  /\ LET callback == Head(engRun.thens)
         r == [Quiet(engRun) EXCEPT !.thens = Tail(@)]
     IN engRun' = IF callback.f = "start" THEN startWhenReady(r)
                  ELSE resizeWhenReady(r, callback.width)
  /\ UNCHANGED nonRunVars

\* The browser runs a pending animation-frame callback: Engine.loop. The
\* callbacks of a fulfilled promise run before it.
EngineAnimationFrame ==
  /\ engRun.pending > 0
  /\ ~(engRun.resolved /\ engRun.thens # <<>>)
  /\ \E latest \in BOOLEAN :
       /\ latest => engRun.handlePending
       /\ ~latest => engRun.pending > (IF engRun.handlePending THEN 1 ELSE 0)
       /\ engRun' = engineLoop([Quiet(engRun) EXCEPT
                       !.pending = @ - 1,
                       !.handlePending = IF latest THEN FALSE ELSE @])
  /\ UNCHANGED nonRunVars

(* ------------------------- WorldEngine actions ----------------------- *)
\* What weLast records: the call that ended, whether the engine was running
\* when it began, the events it emitted itself, the steps of the frame that
\* ended with it, and whether stop() has returned with no start() since.
WeCalled(op, wasRunning, emitted, steps, stopped) ==
  [op |-> op, wasRunning |-> wasRunning, emitted |-> emitted,
   steps |-> steps, stopped |-> stopped]

\* The game is in control: no frame is executing, or the frame executing is
\* inside a listener or a system.
GameCode ==
  \/ weStack = <<>>
  \/ /\ weStack # <<>>
     /\ RunsGameCode(loopBody[weStack[Len(weStack)].pc])

\* engine.start() is called; it returns at once when the engine is running.
WEStart ==
  /\ GameCode
  /\ we.pending < MaxPending
  /\ we.running \/ Len(weStack) < MaxFrameNest
  /\ LET r == start(we, weStack)
     IN /\ we' = r.w
        /\ weStack' = r.frames
        /\ weLast' = WeCalled(IF we.running THEN "start" ELSE "start called",
                              we.running, <<>>, <<>>, FALSE)
  /\ UNCHANGED nonWeVars

\* engine.stop() is called.
WEStop ==
  /\ GameCode
  /\ LET r == stop(we)
     IN /\ we' = r.w
        /\ weLast' = WeCalled("stop", we.running, r.emitted, <<>>, TRUE)
  /\ UNCHANGED weStack
  /\ UNCHANGED nonWeVars

\* The browser runs a pending animation-frame callback: WorldEngine.loop.
WEAnimationFrame ==
  /\ weStack = <<>>
  /\ we.pending > 0
  /\ \E latest \in BOOLEAN :
       /\ latest => we.handlePending
       /\ ~latest => we.pending > (IF we.handlePending THEN 1 ELSE 0)
       /\ LET r == loop([we EXCEPT !.pending = @ - 1,
                                   !.handlePending = IF latest THEN FALSE ELSE @],
                        weStack, FALSE)
          IN /\ we' = r.w
             /\ weStack' = r.frames
             /\ weLast' = WeCalled("loop called", we.running, <<>>, <<>>,
                                   weLast.stopped)
  /\ UNCHANGED nonWeVars

\* The frame executing goes on to its next statement.
FrameStep ==
  /\ weStack # <<>>
  /\ LET frame == weStack[Len(weStack)]
     IN /\ frame.pc < Len(loopBody)
        /\ weStack' = [weStack EXCEPT ![Len(weStack)] =
                         [frame EXCEPT !.pc = @ + 1,
                                       !.steps = Append(@, loopBody[frame.pc + 1])]]
        /\ weLast' = WeCalled("step", we.running, <<>>, <<>>, weLast.stopped)
  /\ UNCHANGED we
  /\ UNCHANGED nonWeVars

\* The frame executing returns from input.endFrame; when start() called the
\* loop, start() goes on, emits 'engine:started' and returns.
FrameReturn ==
  /\ weStack # <<>>
  /\ LET frame == weStack[Len(weStack)]
     IN /\ frame.pc = Len(loopBody)
        /\ weStack' = SubSeq(weStack, 1, Len(weStack) - 1)
        /\ weLast' = IF frame.byStart
                     THEN WeCalled("start", FALSE, startEmits, frame.steps,
                                   weLast.stopped)
                     ELSE WeCalled("loop", TRUE, <<>>, frame.steps,
                                   weLast.stopped)
  /\ UNCHANGED we
  /\ UNCHANGED nonWeVars

\* A listener or a system throws: nothing on the call stack catches it.
FrameThrows ==
  /\ weStack # <<>>
  /\ RunsGameCode(loopBody[weStack[Len(weStack)].pc])
  /\ weStack' = <<>>
  /\ weLast' = WeCalled("threw", we.running, <<>>,
                        weStack[Len(weStack)].steps, weLast.stopped)
  /\ UNCHANGED we
  /\ UNCHANGED nonWeVars

Next ==
  \/ NewEntity
  \/ CreateEntity
  \/ AddEntity
  \/ RemoveEntity
  \/ EntityDestroy
  \/ AddNewComponent
  \/ AddComponent
  \/ RemoveComponent
  \/ AddSystem
  \/ RemoveSystem
  \/ SetEnabled
  \/ WorldDestroy
  \/ Update
  \/ NestedUpdate
  \/ SystemReturn
  \/ SystemThrows
  \/ AddState
  \/ ReplaceState
  \/ OnTransition
  \/ Unsubscribe
  \/ SetState
  \/ NestedSetState
  \/ HookReturn
  \/ Clear
  \/ MachineUpdate
  \/ ConstructComponent
  \/ On
  \/ Off
  \/ BusUnsubscribe
  \/ BusClear
  \/ BusClearAll
  \/ Emit
  \/ ListenerReturn
  \/ EngineAddEntity
  \/ EngineRemoveEntity
  \/ EngineAddComponent
  \/ EngineRemoveComponent
  \/ EngineUpdateComponent
  \/ EngineForEachEntity
  \/ SetField
  \/ RegisterFactory
  \/ SerializeEntity
  \/ DeserializeEntity
  \/ AddStateMachineComponent
  \/ SetComponentEnabled
  \/ StateMachineSystemUpdate
  \/ EngineStart
  \/ EngineStop
  \/ EngineResize
  \/ ReadyResolves
  \/ ReadyCallback
  \/ EngineAnimationFrame
  \/ WEStart
  \/ WEStop
  \/ WEAnimationFrame
  \/ FrameStep
  \/ FrameReturn
  \/ FrameThrows

Spec == Init /\ [][Next]_vars


\* The driver and the systems work on entities; systems are only added.
NextWorld ==
  \/ CreateEntity
  \/ RemoveEntity
  \/ EntityDestroy
  \/ AddSystem
  \/ WorldDestroy
  \/ Update
  \/ NestedUpdate
  \/ SystemReturn

SpecWorld == Init /\ [][NextWorld]_vars

\* Entities and their components, no tick.
NextStore ==
  \/ CreateEntity
  \/ RemoveEntity
  \/ AddNewComponent
  \/ AddComponent
  \/ RemoveComponent

SpecStore == Init /\ [][NextStore]_vars

\* The system list and the scheduler, no entities.
NextSched ==
  \/ AddSystem
  \/ RemoveSystem
  \/ SetEnabled
  \/ Update
  \/ SystemReturn

SpecSched == Init /\ [][NextSched]_vars

\* An entity, its components, and the systems of a tick that destroy it.
NextDestroy ==
  \/ CreateEntity
  \/ AddNewComponent
  \/ EntityDestroy
  \/ AddSystem
  \/ Update
  \/ SystemReturn

SpecDestroy == Init /\ [][NextDestroy]_vars

\* Entities, and the systems of a tick, whose update() can throw.
NextAbort ==
  \/ CreateEntity
  \/ RemoveEntity
  \/ AddSystem
  \/ Update
  \/ SystemReturn
  \/ SystemThrows

SpecAbort == Init /\ [][NextAbort]_vars

\* The StateMachine, its driver, and the user code it calls: callbacks and
\* hooks that register and unsubscribe callbacks.
NextFSM ==
  \/ AddState
  \/ OnTransition
  \/ Unsubscribe
  \/ SetState
  \/ HookReturn
  \/ Clear
  \/ MachineUpdate

SpecFSM == Init /\ [][NextFSM]_vars

\* The StateMachine's registry: states are registered, registered again
\* under a name in use, entered, and cleared.
NextRegistry ==
  \/ AddState
  \/ ReplaceState
  \/ SetState
  \/ HookReturn
  \/ Clear

SpecRegistry == Init /\ [][NextRegistry]_vars

\* StateMachineComponents are constructed, and their machines are given
\* states and driven.
NextComponent ==
  \/ ConstructComponent
  \/ AddState
  \/ SetState
  \/ HookReturn

SpecComponent == Init /\ [][NextComponent]_vars

\* The StateMachine with hooks that call setState.
NextReentrant ==
  \/ AddState
  \/ SetState
  \/ NestedSetState
  \/ HookReturn

SpecReentrant == Init /\ [][NextReentrant]_vars

\* The EventBus, its driver, and listeners that subscribe, unsubscribe and
\* clear during a dispatch.
NextBus ==
  \/ On
  \/ Off
  \/ BusUnsubscribe
  \/ BusClear
  \/ BusClearAll
  \/ Emit
  \/ ListenerReturn

SpecBus == Init /\ [][NextBus]_vars

\* The lightweight Engine's entities and component stores, and its driver.
NextEngine ==
  \/ EngineAddEntity
  \/ EngineRemoveEntity
  \/ EngineAddComponent
  \/ EngineRemoveComponent
  \/ EngineUpdateComponent

SpecEngine == Init /\ [][NextEngine]_vars

\* Entities with StateMachineComponents, enabled or not, and the system.
NextStateMachineSystem ==
  \/ CreateEntity
  \/ RemoveEntity
  \/ AddStateMachineComponent
  \/ SetComponentEnabled
  \/ StateMachineSystemUpdate

SpecStateMachineSystem == Init /\ [][NextStateMachineSystem]_vars

\* The lightweight Engine's entities and stores, and iteration over them.
NextStores ==
  \/ EngineAddEntity
  \/ EngineRemoveEntity
  \/ EngineAddComponent
  \/ EngineRemoveComponent
  \/ EngineForEachEntity

SpecStores == Init /\ [][NextStores]_vars

\* The lightweight Engine's start, stop and resize, its init promise and the
\* browser's animation frames.
NextEngineLoop ==
  \/ EngineStart
  \/ EngineStop
  \/ EngineResize
  \/ ReadyResolves
  \/ ReadyCallback
  \/ EngineAnimationFrame

SpecEngineLoop == Init /\ [][NextEngineLoop]_vars

\* The WorldEngine's start and stop, called between frames and from inside
\* them, and its frames.
NextWorldEngine ==
  \/ WEStart
  \/ WEStop
  \/ WEAnimationFrame
  \/ FrameStep
  \/ FrameReturn
  \/ FrameThrows

SpecWorldEngine == Init /\ [][NextWorldEngine]_vars

\* An entity, its components and their fields, and the serializers.
NextSerializer ==
  \/ CreateEntity
  \/ AddNewComponent
  \/ SetField
  \/ RegisterFactory
  \/ SerializeEntity
  \/ DeserializeEntity

SpecSerializer == Init /\ [][NextSerializer]_vars


(* ============================= properties ============================ *)
MaxTypeList == 2      \* length of a query's component type list
TypeLists == UNION {[1..n -> CompTypes] : n \in 0..MaxTypeList}

NoDuplicates(seq) == \A i, j \in 1..Len(seq) : i # j => seq[i] # seq[j]

C2_UpdateReturnsWithRemovedGone ==
  (last.op = "update returned" /\ ~InTick /\ tick.removed # {}) =>
     /\ last.x = NoErr
     /\ \A e \in tick.removed :
          /\ getEntity(H, e) = NoEntity
          /\ e \notin Range(getAllEntities(H))

\* C3: World.removeEntity outside a tick, for an entity of the live map,
\* returns with the entity inactive, without components and out of the map.
C3_RemoveOutsideTickIsSynchronous ==
  (last.op = "removeEntity" /\ ~last.inTick /\ last.inMap) =>
     /\ last.x = NoErr
     /\ ~entities[last.e].active
     /\ entities[last.e].components = <<>>
     /\ getEntity(H, last.e) = NoEntity

\* C4: while no World.update call is in progress both pending queues are
\* empty.
C4_QueuesEmptyBetweenTicks ==
  ~InTick => world.entitiesToAdd = <<>> /\ world.entitiesToRemove = <<>>

\* C5: no step taken while the system loop of a tick is executing changes
\* the live entity map.
C5_LiveMapUntouchedDuringLoop ==
  [][(InTick /\ InTick') => world'.entities = world.entities]_vars

C7_IdsStrictlyIncreasing ==
  \A i, j \in 1..Len(idLog) : i < j => idLog[i] < idLog[j]

\* An entity is created after an earlier one was destroyed.
C7_Witness ==
  /\ last.op = "createEntity"
  /\ \E e \in EntityIds :
       /\ e < last.e
       /\ ~entities[e].active
       /\ ~entities[e].world

Priorities == {Priority(s) : s \in SystemIds}
VisitedSystems(visited) == [i \in 1..Len(visited) |-> visited[i].system]
EnabledWhenReached(visited) ==
  VisitedSystems(SelectSeq(visited, LAMBDA v : v.enabled))

C9_HooksExactlyOnce ==
  \A s \in SystemIds :
    /\ systemObjs[s].onInit <= 1
    /\ systemObjs[s].onDestroy <= 1
    /\ s \in Range(world.systems) =>
         systemObjs[s].onInit = 1 /\ systemObjs[s].onDestroy = 0

\* C10: World.destroy returns, and with every collection empty.
C10_DestroyEmptiesWorld ==
  last.op = "World.destroy" =>
     /\ last.x = NoErr
     /\ getStats(H) = [entities |-> 0, activeEntities |-> 0, systems |-> 0]
     /\ world.entitiesToAdd = <<>>
     /\ world.entitiesToRemove = <<>>

\* C11: Entity.destroy called by a system during a tick, on an entity of the
\* world, returns with every component of the entity torn down and the
\* entity queued for removal; and the World.update call of that tick returns
\* normally, with the entity out of the world and both queues empty.
C11_DestroyInTickCompletes ==
  /\ (last.op = "Entity.destroy" /\ last.inTick /\ last.inMap) =>
        /\ last.x = NoErr
        /\ \A c \in ComponentIds :
             components[c].entityId = last.e => components[c].destroyed
        /\ last.e \in Range(world.entitiesToRemove)
  /\ (last.op = "update returned" /\ ~InTick /\ tick.destroyed # {}) =>
        /\ last.x = NoErr
        /\ \A e \in tick.destroyed :
             /\ getEntity(H, e) = NoEntity
             /\ e \notin Range(getAllEntities(H))
        /\ world.entitiesToAdd = <<>>
        /\ world.entitiesToRemove = <<>>

StorageOps == {"addComponent", "removeComponent", "createEntity", "addEntity",
               "removeEntity", "addSystem", "removeSystem"}

\* C12: no call of addComponent, removeComponent, createEntity, addEntity,
\* removeEntity, addSystem or removeSystem raises an error.
C12_StorageOperationsNeverRaise ==
  last.op \in StorageOps => last.x = NoErr

\* The entity e holds the component c: in getAllComponents() or in the
\* getComponents() of c's type.
Holds(h, e, c) ==
  \/ c \in Range(getAllComponents(h, e))
  \/ c \in Range(getComponents(h, e, h.components[c].type))

\* C13: no component is held by two entities, and the entityId of a
\* component that is held is the id of its holder.
C13_ExclusiveOwnership ==
  \A c \in ComponentIds :
    \A e1, e2 \in EntityIds :
      Holds(H, e1, c) =>
        /\ components[c].entityId = entities[e1].id
        /\ Holds(H, e2, c) => e1 = e2

Without(seq, c) == SelectSeq(seq, LAMBDA x : x # c)

\* C14: removeComponent(c) on an entity that holds c leaves c in neither
\* getComponents(c.getType()) nor getAllComponents(), leaves the other
\* components where they were, in their order, and leaves hasComponent of
\* the type true exactly when another instance of the type is held.
C14_RemoveComponentDetaches ==
  [][(last'.op = "removeComponent" /\ Holds(H, last'.e, last'.c)) =>
       LET e == last'.e
           c == last'.c
           type == components[c].type
       IN /\ c \notin Range(getComponents(H', e, type))
          /\ c \notin Range(getAllComponents(H', e))
          /\ getAllComponents(H', e) = Without(getAllComponents(H, e), c)
          /\ \A t \in CompTypes :
               getComponents(H', e, t) = Without(getComponents(H, e, t), c)
          /\ hasComponent(H', e, type)
               <=> Without(getComponents(H, e, type), c) # <<>>]_vars

\* The components of the type the entity holds, in the order of attachment.
AttachedOfType(h, e, type) ==
  SelectSeq(getAllComponents(h, e), LAMBDA c : h.components[c].type = type)

\* C15: getComponents(T) is the list of the attached components of type T
\* in the order of attachment, getComponent(T) its first element or
\* undefined, hasComponent(T) true iff getComponent(T) is defined; and when
\* the first is removed getComponent(T) is the one attached after it.
C15_LookupFollowsAttachment ==
  [][\A e \in EntityIds :
       \A type \in CompTypes :
         LET was == AttachedOfType(H, e, type)
             now == AttachedOfType(H', e, type)
         IN /\ getComponents(H', e, type) = now
            /\ getComponent(H', e, type)
                 = IF now = <<>> THEN NoComponent ELSE now[1]
            /\ hasComponent(H', e, type)
                 <=> getComponent(H', e, type) # NoComponent
            /\ (/\ last'.op = "removeComponent"
                /\ last'.e = e
                /\ Len(was) >= 2
                /\ last'.c = was[1])
               => getComponent(H', e, type) = was[2]]_vars

\* C16: setState(name) with a name that is not registered returns false,
\* invokes no onExit, onEnter or callback, and leaves getCurrentState() and
\* getCurrentStateName() as they were.
C16_UnknownNameRejected ==
  (smLast.op \in {"setState returned", "setState in hook"} /\ ~smLast.known) =>
     /\ smLast.op = "setState returned"
     /\ ~smLast.result
     /\ smLast.calls = <<>>
     /\ getCurrentState(machine) = smLast.before
     /\ getCurrentStateName(machine) = smLast.beforeName

\* With a current state and a callback registered, a name without a state
\* was given.
C16_Witness ==
  /\ smLast.op = "setState returned"
  /\ ~smLast.known
  /\ smLast.before # NoState
  /\ machine.transitionCallbacks # <<>>

\* C17: setState(target) with a current state whose canTransitionTo(target)
\* is false returns false, invokes no onExit, onEnter or callback, and
\* leaves the current state as it was.
C17_VetoedTransitionRejected ==
  (/\ smLast.op \in {"setState returned", "setState in hook"}
   /\ smLast.known
   /\ smLast.before # NoState
   /\ ~smLast.approved) =>
     /\ smLast.op = "setState returned"
     /\ ~smLast.result
     /\ smLast.calls = <<>>
     /\ getCurrentState(machine) = smLast.before

\* The current state refused a registered target, a callback being
\* registered.
C17_Witness ==
  /\ smLast.op = "setState returned"
  /\ smLast.known
  /\ smLast.before # NoState
  /\ ~smLast.approved
  /\ machine.transitionCallbacks # <<>>

\* The callbacks among the user code a setState call invoked.
Notified(calls) == SelectSeq(calls, LAMBDA k : k.hook = "callback")

\* C18: a setState(next) that succeeds with prev current has invoked, in
\* this order: prev.onExit(next) with getCurrentState() = prev, then
\* next.onEnter(prev) with getCurrentState() = next, then callbacks only,
\* each with (prev.name, next.name); also when next is prev.
C18_ExitSwapEnterNotify ==
  (smLast.op = "setState returned" /\ smLast.result /\ smLast.before # NoState) =>
     LET calls == smLast.calls
         prev == smLast.before
         next == smLast.newState
     IN /\ Len(calls) >= 2
        /\ calls[1] = [hook |-> "onExit", on |-> prev, arg |-> next,
                       from |-> NullName, to |-> NullName, current |-> prev]
        /\ calls[2] = [hook |-> "onEnter", on |-> next, arg |-> prev,
                       from |-> NullName, to |-> NullName, current |-> next]
        /\ \A i \in 3..Len(calls) :
             /\ calls[i].hook = "callback"
             /\ calls[i].from = StateName(prev)
             /\ calls[i].to = StateName(next)

Count(seq, x) == Len(SelectSeq(seq, LAMBDA y : y = x))

\* C19: a setState that succeeds has invoked every callback of the list its
\* loop began with, once for each registration, with the name of the
\* previous state (null when there was none) and the new name.
C19_EveryObserverNotifiedOnce ==
  (smLast.op = "setState returned" /\ smLast.result) =>
     LET notified == Notified(smLast.calls)
     IN /\ \A cb \in Range(smLast.atStart) :
             Count([i \in 1..Len(notified) |-> notified[i].on], cb)
               = Count(smLast.atStart, cb)
        /\ \A i \in 1..Len(notified) :
             /\ notified[i].from = IF smLast.before = NoState THEN NullName
                                   ELSE StateName(smLast.before)
             /\ notified[i].to = smLast.stateName

\* C20: setState(name) with a registered name and no current state returns
\* true, having invoked onEnter(undefined) on the state of that name first,
\* no onExit, and callbacks with (null, name).
C20_FirstStateEntersWithoutExit ==
  (/\ smLast.op = "setState returned"
   /\ smLast.known
   /\ smLast.before = NoState) =>
     LET calls == smLast.calls
     IN /\ smLast.result
        /\ Len(calls) >= 1
        /\ calls[1] = [hook |-> "onEnter", on |-> smLast.newState,
                       arg |-> Undefined, from |-> NullName, to |-> NullName,
                       current |-> smLast.newState]
        /\ \A i \in 2..Len(calls) :
             /\ calls[i].hook = "callback"
             /\ calls[i].from = NullName
             /\ calls[i].to = smLast.stateName

\* The first state was entered and two callbacks were told.
C20_Witness ==
  /\ smLast.op = "setState returned"
  /\ smLast.result
  /\ smLast.before = NoState
  /\ smLast.stateName = "run"
  /\ Len(Notified(smLast.calls)) = 2

C22_UnsubscribeRemovesOwnRegistration ==
  \A cb \in Callbacks :
    Count(machine.transitionCallbacks, cb)
      = Cardinality({k \in 1..Len(unsubscribers) :
                       unsubscribers[k].cb = cb /\ ~unsubscribers[k].invoked})

\* C23: clear() has called onExit() without argument on the state that was
\* current, and no hook when there was none; after it getCurrentState() is
\* null and getStateNames() is empty; and while no name is registered every
\* setState returns false.
C23_ClearResetsMachine ==
  /\ smLast.op = "clear" =>
       /\ smLast.calls =
            IF smLast.before # NoState
            THEN <<[hook |-> "onExit", on |-> smLast.before, arg |-> Undefined,
                    from |-> NullName, to |-> NullName,
                    current |-> smLast.before]>>
            ELSE <<>>
       /\ getCurrentState(machine) = NoState
       /\ getStateNames(machine) = {}
  /\ (/\ smLast.op \in {"setState returned", "setState in hook"}
      /\ getStateNames(machine) = {}) =>
       /\ smLast.op = "setState returned"
       /\ ~smLast.result

\* clear() found a current state and exited it.
C23_Witness ==
  /\ smLast.op = "clear"
  /\ smLast.before # NoState
  /\ Len(smLast.calls) = 1

\* The listeners registered for the event.
Registered(b, event) ==
  IF event \in DOMAIN b.listeners
  THEN Range(setValues(b.buckets[b.listeners[event]])) ELSE {}

\* The emit call invoked exactly the listeners of the list, each once, and
\* passed each its payload.
InvokedExactly(invoked, listeners, payload) ==
  /\ Len(invoked) = Len(listeners)
  /\ {invoked[i].listener : i \in 1..Len(invoked)} = Range(listeners)
  /\ \A i \in 1..Len(invoked) : invoked[i].payload = payload

C25_EmitDispatchesSnapshot ==
  busLast.op = "emit returned" =>
     InvokedExactly(busLast.invoked, busLast.atStart, busLast.payload)

\* C26: a call of the closure returned by on(event, listener) leaves every
\* listener registered that is not this listener of this event, and
\* registers none.
C26_UnsubscribeRemovesOnlyItsListener ==
  [][busLast'.op = "unsubscribe" /\ busLast'.closure # 0 =>
       \A ev \in EventNames :
         /\ Registered(bus', ev) \subseteq Registered(bus, ev)
         /\ Registered(bus, ev) \ Registered(bus', ev)
              \subseteq IF ev = busLast'.event THEN {busLast'.listener} ELSE {}]_vars

\* C27: after a call of the closure returned by on(event, listener), or of
\* off(event, listener), the listener is not registered for the event; and
\* in every state hasListeners(event) holds iff getListenerCount(event) > 0
\* iff a listener is registered for the event, the map holding no empty
\* bucket.
C27_RemovedListenerIsGone ==
  [][/\ busLast'.op \in {"unsubscribe", "off"}
          => busLast'.listener \notin Registered(bus', busLast'.event)
     /\ \A ev \in EventNames :
          /\ hasListeners(bus', ev) <=> getListenerCount(bus', ev) > 0
          /\ hasListeners(bus', ev) <=> Registered(bus', ev) # {}
          /\ ev \in DOMAIN bus'.listeners => getListenerCount(bus', ev) > 0]_vars

\* C28: clear(event) removes the listeners of that event and of no other
\* event, whatever the name.
C28_ClearEventLeavesOtherEvents ==
  [][busLast'.op = "clear(event)" =>
       \A ev \in EventNames :
         Registered(bus', ev)
           = IF ev = busLast'.event THEN {} ELSE Registered(bus, ev)]_vars

\* C29: Engine.updateComponent throws, without invoking the updater, if and
\* only if the entity has no component of the type; when the entity has one,
\* the updater is invoked exactly once, with the stored value, and nothing is
\* thrown.
C29_UpdateComponentThrowsIffMissing ==
  engLast.op = "updateComponent" =>
    /\ engLast.x # NoErr <=> ~engLast.had
    /\ engLast.x # NoErr => engLast.calls = <<>>
    /\ engLast.x = NoErr => engLast.calls = <<engLast.value>>

\* C30: an entity rebuilt by EntitySerializer.deserialize from what
\* EntitySerializer.serialize returned, with a factory registered for each
\* of its component types, has the component types of the original, and
\* every data field of every component of the original with an equal value:
\* no component and no field is lost.
C30_RoundTripKeepsComponentsAndFields ==
  LET original == serLast.original
      rebuilt == serLast.rebuilt
  IN (/\ serLast.op = "deserialize"
      /\ \A i \in 1..Len(original) : original[i].type \in serLast.registered)
     =>
       /\ {original[i].type : i \in 1..Len(original)}
            = {rebuilt[i].type : i \in 1..Len(rebuilt)}
       /\ Len(rebuilt) = Len(original)
       /\ \A i \in 1..Len(original) :
            /\ rebuilt[i].type = original[i].type
            /\ \A k \in DOMAIN original[i].fields :
                 /\ k \in DOMAIN rebuilt[i].fields
                 /\ rebuilt[i].fields[k] = original[i].fields[k]

\* C33: an entity a system creates with World.createEntity during a tick
\* has its id and its world reference at once and is not in the live map;
\* no step taken while the loop of the tick is executing puts a queued
\* entity into the live map; and when World.update has returned, the
\* entities that were queued are in the live map and getAllEntities()
\* returns those of them that are active.
C33_CreatedInTickIsBuffered ==
  [][/\ (last'.op = "createEntity" /\ last'.inTick /\ last'.x = NoErr) =>
          /\ entities'[last'.e].id = last'.e
          /\ entities'[last'.e].world
          /\ getEntity(H', last'.e) = NoEntity
          /\ last'.e \notin Range(getAllEntities(H'))
     /\ (InTick /\ InTick') =>
          \A e \in Range(world.entitiesToAdd) :
            e \in Range(world'.entities) => e \in Range(world.entities)
     /\ (last'.op = "update returned" /\ last'.x = NoErr /\ ~InTick') =>
          \A e \in Range(world.entitiesToAdd) :
            /\ getEntity(H', e) = e
            /\ entities'[e].active => e \in Range(getAllEntities(H'))
    ]_vars

\* C36: while no World.update call is executing the updating flag is false,
\* also after an update that a system's error ended, and an entity created
\* then is in the live map when createEntity returns.
C36_FlagFalseOutsideUpdate ==
  /\ ~InTick => ~world.isUpdating
  /\ (last.op = "createEntity" /\ ~last.inTick /\ last.x = NoErr) =>
       getEntity(H, last.e) = last.e

\* C34: the current state of a StateMachine is null or the state the
\* registry holds under the current state's name.
C34_CurrentStateIsRegistered ==
  getCurrentState(machine) # NoState =>
    getState(machine, StateName(getCurrentState(machine)))
      = getCurrentState(machine)

\* C35: when setState(name) returns true, for a name that is not the empty
\* string, getCurrentStateName() is name, also when a hook of the transition
\* called setState.
C35_TrueMeansCurrentIsName ==
  (/\ smLast.op = "setState returned"
   /\ smLast.result
   /\ smLast.stateName # "")
  => getCurrentStateName(machine) = smLast.stateName

\* C31: when a StateMachineComponent has been constructed with the option
\* initialState = s, getCurrentState() returns s and isInState(s) is true.
C31_InitialStateIsEntered ==
  (smLast.op = "new StateMachineComponent" /\ smLast.known) =>
    /\ getCurrentStateName(machine) = smLast.stateName
    /\ isInState(machine, smLast.stateName)

\* The component is one whose machine a tick of the system owes an update:
\* a StateMachineComponent that is enabled and attached to an active entity
\* of the world.
OwedUpdate(c) ==
  /\ components[c].type = "StateMachine"
  /\ componentEnabled(props, H, c)
  /\ \E e \in Range(world.entities) :
       entities[e].active /\ c \in Range(entities[e].components)

\* C39: a tick of the enabled StateMachineSystem forwards update exactly once
\* to the machine of every enabled StateMachineComponent attached to an
\* active entity, also when an entity carries more than one, and to no other
\* machine.
C39_EveryEnabledMachineUpdatedOnce ==
  [][smsLast'.ticks # smsLast.ticks =>
       \A c \in ComponentIds :
         Count(smsLast'.forwarded, c) = IF OwedUpdate(c) THEN 1 ELSE 0]_vars

\* C38: once stop() has been called after start() and before any further
\* start(), the lightweight Engine is not running and no systems' update is
\* executed, whenever the init promise resolves; and a start() after such a
\* stop() makes the engine run again (it runs once the promise is fulfilled
\* and its callbacks have run).
C38_StopAndRestartTakeEffect ==
  /\ engRun.stopped => ~engRun.running /\ ~engRun.updated
  /\ (engRun.restarted /\ engRun.resolved /\ engRun.thens = <<>>)
       => engRun.running

\* The statements of a frame as the WorldEngine's documentation orders them.
FrameOrder ==
  <<"input.beginFrame", "engine:preUpdate", "world.update",
    "engine:postUpdate", "engine:preRender", "render", "engine:postRender",
    "input.endFrame">>

IsPrefix(a, b) == Len(a) <= Len(b) /\ SubSeq(b, 1, Len(a)) = a

\* C32: what a frame of the WorldEngine has executed is at every moment the
\* beginning of the sequence beginFrame, preUpdate, world.update, postUpdate,
\* preRender, render, postRender, endFrame, and the whole of it when the frame
\* returns; a start() that finds the engine stopped emits 'engine:started'
\* once, a stop() that finds it running emits 'engine:stopped' once, and
\* neither emits otherwise.
C32_FrameStepsInOrderOnce ==
  /\ \A i \in 1..Len(weStack) : IsPrefix(weStack[i].steps, FrameOrder)
  /\ weLast.op = "threw" => IsPrefix(weLast.steps, FrameOrder)
  /\ weLast.op = "loop" => weLast.steps = FrameOrder
  /\ weLast.op = "start" =>
       /\ ~weLast.wasRunning => weLast.steps = FrameOrder
       /\ weLast.emitted = IF weLast.wasRunning THEN <<>>
                           ELSE <<"engine:started">>
  /\ weLast.op = "stop" =>
       weLast.emitted = IF weLast.wasRunning THEN <<"engine:stopped">>
                        ELSE <<>>

\* A start() that found the engine stopped has returned: its frame ran from
\* input.beginFrame to input.endFrame and 'engine:started' was emitted.
C32_StartRanAFrame ==
  /\ weLast.op = "start"
  /\ ~weLast.wasRunning
  /\ Len(weLast.steps) = Len(FrameOrder)

\* The frame executing begins world.update.
UpdateBegins ==
  /\ weStack # <<>>
  /\ Len(weStack') = Len(weStack)
  /\ loopBody[weStack[Len(weStack)].pc] = "engine:preUpdate"
  /\ loopBody[weStack'[Len(weStack')].pc] = "world.update"

\* C40: at most one animation-frame callback of the WorldEngine is pending;
\* start() while running and stop() while stopped change nothing; and once
\* stop() has returned no world.update is executed before start() is called
\* again, also when stop() was called from inside a frame.
C40_OneFramePendingAndStopHolds ==
  [][/\ we'.pending <= 1
     /\ (weLast'.op = "start" /\ weLast'.wasRunning /\ weLast' # weLast)
          => (we' = we /\ weStack' = weStack)
     /\ (weLast'.op = "stop" /\ ~weLast'.wasRunning /\ weLast' # weLast)
          => (we' = we /\ weStack' = weStack)
     /\ ~(weLast.stopped /\ UpdateBegins)]_vars

\* C37: of the ids addEntity has returned, the component stores of the
\* lightweight Engine hold values only for the live ones: removeEntity has
\* deleted the entity from every store, no store has an entry for an entity
\* that is not live, and forEachEntity passes only live entities to its
\* handler.
C37_StoresHoldLiveEntitiesOnly ==
  LET live == DOMAIN engine.entityComponentKeys
      returned == 1..(engine.entityCounter - 1)
  IN /\ \A k \in DOMAIN engine.componentStores :
          (DOMAIN engine.componentStores[k]) \cap returned \subseteq live
     /\ engLast.op = "forEachEntity" =>
          Range(engLast.calls) \cap returned \subseteq live

====
